---- MODULE Spec2Model ----
(***************************************************************************)
(* QAnotherRTSP: the per-camera session (CamWindow), its restart/backoff   *)
(* controller, its decode loop and its frame buffer.                       *)
(*                                                                         *)
(* Spec         the session life cycle: the UI thread's handlers           *)
(*              (StopCamera, StartCamera, RestartWith, Close,              *)
(*              OnResumeFromSleep), the goroutines running restartDecoder  *)
(*              and the decode loops, interleaved statement by statement.  *)
(* SpecLoop     the first decode loop against StopCamera and Close, with   *)
(*              the scheduling of goroutines and timers.                   *)
(* SpecRestart  the restart requests against the decode loops, with the    *)
(*              scheduling of goroutines and timers.                       *)
(* SpecBackoff  the decode loop of a freshly opened session failing and    *)
(*              retrying against a clock.                                  *)
(* SpecBuf      frameBuf.put on the decode thread against the paint        *)
(*              event's get and copy.                                      *)
(* SpecStall    openAndDecode's packet loop and its stall watchdog.        *)
(* SpecRec      the recorder closures startRecorder and closeRecorder.     *)
(* SpecMetrics  the 1 s metrics timer.                                     *)
(* SpecDrops    the PTS gap estimator of the packet loop.                  *)
(* SpecParams   parseFFmpegParams, character by character.                 *)
(* SpecPath     recordingFilePath and sanitizeFSComponent.                 *)
(* SpecRecFile  the output files of a camera's recordings.                 *)
(* SpecTray     the window registry, the tray and the settings dialog.     *)
(* SpecPause    the decode loop's pause between attempts against a clock.  *)
(* SpecAttempt  one decode loop, decodeLoop and openAndDecode statement by *)
(*              statement, against StopCamera, ToggleRecording and a clock.*)
(* SpecConfig   RestartWith against the decode loops' reads of w.cfg.      *)
(* SpecBitrate  the byte counters of the packet loop and the bitrate of    *)
(*              the metrics timer.                                         *)
(* SpecDecOpts  the options the video decoder is opened with.              *)
(* SpecScaler   bgraScaler: ensure, toBGRA and close.                      *)
(* SpecReconnect setReconnectSoon statement by statement, two decode loops *)
(*              and restartDecoder on the unlocked backoff.                *)
(*                                                                         *)
(* Durations are in milliseconds. Channels are numbers; a channel is       *)
(* closed when it is in closedCh.                                          *)
(***************************************************************************)
EXTENDS Integers, Sequences, FiniteSets, TLC

\* ------------------------------------------------------------- bounds
\* decode loops ever started (the one of newCamWindow included)
MaxLoops == 2
\* attempts that end with an error
MaxFails == 1

\* consecutive failures of the freshly opened session (SpecBackoff)
MaxRun == 6
\* seconds the clock advances (SpecBackoff)
MaxClock == 3
\* frames put into the frame buffer (SpecBuf)
MaxPuts == 2
\* steps of 5 s the clock advances during the packet loop (SpecStall)
MaxStallTicks == 3
\* calls of startRecorder and closeRecorder in one attempt (SpecRec)
MaxRecCalls == 3
\* video packets the gap estimator sees in one attempt (SpecDrops)
MaxPkts == 3
\* tokens typed into a camera's FFmpeg params field (SpecParams)
MaxToks == 2
\* recordings of a camera, and half seconds of wall clock (SpecRecFile)
MaxFiles == 3
MaxHalves == 6
\* characters of a camera name (SpecPath)
MaxName == 2
\* cameras in the configuration and camera windows ever made (SpecTray)
MaxCams == 3
MaxWins == 4
\* attempts of the decode loop and packets it reads (SpecAttempt)
MaxAttempts == 2
MaxReads == 2
\* frames the decoder returns for one packet (SpecAttempt)
MaxFrames == 1
\* packets read between the ticks of the metrics timer (SpecBitrate)
MaxBrPkts == 3
\* ticks of the metrics timer (SpecBitrate)
MaxBrTicks == 2

\* ------------------------------------------------ program constants (ms)
BytesPerPixel == 4
StallCutoff == 10000
InitialBackoff == 1000
ShortBackoff == 250
MaxBackoff == 30000
ShortCadence == 1000
PauseLength == 1000

VARIABLES
  \* --- CamWindow fields
  w_stop,       \* w.stop: the channel the field holds
  w_done,       \* w.done
  closing,      \* w.closing
  wantPlaying,  \* w.wantPlaying
  backoff,      \* w.backoff
  nextTry,      \* w.nextTry
  \* --- runtime
  closedCh,     \* the closed channels
  nextCh,       \* the next channel make() returns
  panicked,     \* "no", or the field whose channel was closed twice
  thr,          \* UI thread (0) and wake goroutines (1..MaxRestarts)
  loops,        \* decode loop goroutines
  nLoops,       \* decode loops started so far
  nRestarts,    \* restartDecoder calls begun so far
  nFails,       \* attempts that returned an error so far
  now,          \* time.Now()
  \* --- the frame buffer and its two users
  buf,          \* w.buf: seq, w, h and the slice b (backing array, length)
  heap,         \* the backing arrays make() has returned, a tag per pixel
  mu,           \* w.buf.mu: "free" or write-locked by "put"
  dec,          \* the decode thread inside put
  paint,        \* the UI thread inside the paint event
  putLog,       \* the width and height of every put that has returned
  \* --- openAndDecode's packet loop
  pl,           \* position, the packet read, lastProgress, audio decoded
  \* --- the recorder of one attempt
  rec,          \* w.recCtx, w.recIO, w.recStreamIx, w.aEnc*, w.aSwr and the file
  recording,    \* w.recording
  recLog,       \* the calls of startRecorder and closeRecorder that returned
  \* --- the metrics sampler
  met,          \* lastM*, fps, bitrateKbps, dropsPct, cpuPct, health; the deltas
  \* --- the PTS gap estimator
  est,          \* tb*, fps*, lastPktPTS, pktPtsInited, framesDropped; the packet
  \* --- parseFFmpegParams
  prs,          \* the params string, the tokens typed, the two maps returned
  \* --- recordingFilePath
  san,          \* w.cfg.Name, w.cfg.URL and the directory component built
  \* --- the window registry, the tray and the settings dialog
  cams,         \* globalConfig.Cameras (tray.cfg.Cameras): ID, Name, Disabled
  dcams,        \* d.cams, the dialog's working copy
  wins,         \* wins: a window per slot, 0 for nil
  cw,           \* the camera windows made: cfg.ID, idx, open
  actions,      \* t.actions: the check state of each tray item
  posted,       \* the callbacks postToUI has queued: the idx of each
  trayPanic,    \* the UI thread has panicked
  edit,         \* the onEdit that has just returned: its row, the windows restarted
  \* --- decodeLoop's pause against the clock
  timer,        \* the time the pause's time.After(1s) fires at, 0 when not armed
  \* --- decodeLoop and openAndDecode, statement by statement
  at,           \* one decode loop: its position, the attempt's locals, the packet in hand
  \* --- the camera configuration
  cfg,          \* w.cfg: the version RestartWith stored last
  cfgSeen,      \* per decode loop, the version its attempts have read
  \* --- the bitrate sample
  br,           \* the overlay flags, bytesVideo and the video payload read since the last tick
  \* --- the decoder options
  vo,           \* the video decoder's option dictionary being built by an attempt
  \* --- the pixel converter
  sc,           \* the bgraScaler of an attempt and its last toBGRA call
  \* --- the unlocked backoff
  rs,           \* the goroutines around setReconnectSoon, statement by statement
  \* --- the recording files
  rf            \* the recordings of one camera: the wall clock, the recorder, the files made

lifeVars == <<w_stop, w_done, closing, wantPlaying, closedCh, nextCh, panicked,
              thr, loops, nLoops, nRestarts, nFails>>
boVars == <<backoff, nextTry, now>>
bufVars == <<buf, heap, mu, dec, paint, putLog>>
stallVars == <<pl>>
recVars == <<rec, recording, recLog>>
metVars == <<met>>
estVars == <<est>>
prsVars == <<prs>>
sanVars == <<san>>
trayVars == <<cams, dcams, wins, cw, actions, posted, trayPanic, edit>>
pauseVars == <<timer>>
attVars == <<at>>
cfgVars == <<cfg, cfgSeen>>
brVars == <<br>>
voVars == <<vo>>
scVars == <<sc>>
rsVars == <<rs>>
rfVars == <<rf>>
\* the groups RestartWith leaves alone
restConfig == <<stallVars, recVars, metVars, estVars, prsVars, sanVars, trayVars,
            pauseVars,
            attVars, brVars, voVars, scVars, rsVars, rfVars>>
extVars == <<stallVars, recVars, metVars, estVars, prsVars, sanVars, trayVars,
            pauseVars,
            attVars,
            cfgVars,
            brVars,
            voVars,
            scVars,
            rsVars,
            rfVars>>
vars == <<lifeVars, boVars, bufVars, extVars>>

UI == 0
\* every restartDecoder call starts a decode loop; OnResumeFromSleep runs
\* each of its calls on a goroutine of its own
MaxRestarts == MaxLoops - 1
Threads == 0..MaxRestarts
WakeThreads == 1..MaxRestarts
LoopIds == 1..MaxLoops
\* a put allocates at most one backing array
Arrays == 1..MaxPuts
\* the frame sizes (width, height) toBGRA delivers
Dims == {<<1, 1>>, <<2, 1>>}

\* ------------------------------------------------------------ backoff
\* setReconnectSoon: the delay it schedules (nextTry - now)
ReconnectDelay(b) ==
  LET b1 == IF b = 0 THEN InitialBackoff ELSE b
      b2 == IF b1 > MaxBackoff THEN MaxBackoff ELSE b1
  IN b2

\* setReconnectSoon without the doubling
ReconnectBackoffFlat(b) == ReconnectDelay(b)

\* setReconnectSoon: the backoff it leaves
ReconnectBackoff(b) ==
  LET b2 == ReconnectDelay(b)
  IN IF b2 < MaxBackoff
       THEN (IF b2 * 2 > MaxBackoff THEN MaxBackoff ELSE b2 * 2)
       ELSE b2

\* restartDecoder resetting unconditionally
RestartBackoffAlways(b) == ShortBackoff

\* restartDecoder: "ensure the next retry cadence is short"
RestartBackoff(b) ==
  IF b = 0 \/ b > ShortCadence THEN ShortBackoff ELSE b

\* ------------------------------------------------------------- Init
\* main: two cameras of the settings file, given IDs by ensureCameraIDs and
\* enabled; each gets its window, its slot in wins, its hooks and a checked
\* tray item. Slots and idx count from 1. The settings dialog is open.
StartCameras ==
  <<[id |-> 1, name |-> 11, disabled |-> FALSE],
    [id |-> 2, name |-> 12, disabled |-> FALSE]>>

\* make(map[string]string); a string is the sequence of its characters
EmptyMap == [k \in {} |-> <<>>]

\* the estimator's fields as the struct is made; n counts the video packets
\* of the attempt, prev and ts are the timestamps of the previous packet and
\* of this one, added is what this packet added to framesDropped
NoEstimator ==
  [tbNum |-> 0, tbDen |-> 0, fpsNom |-> 0, fpsDen |-> 0,
   lastPktPTS |-> 0, pktPtsInited |-> FALSE, framesDropped |-> 0,
   open |-> FALSE, n |-> 0, prev |-> 0, ts |-> 0, added |-> 0]

\* a float64 held exactly, as a fraction with a positive denominator
Rat(n, d) == [num |-> n, den |-> d]

\* CamWindow's metrics fields as the struct is made; shown, missing and
\* ticks are the interval's clamped deltas and the ticks that computed
NoMetrics ==
  [lastMFrames |-> 0, lastMBytes |-> 0, lastMDrops |-> 0, lastMBusy |-> 0,
   fps |-> Rat(0, 1), bitrateKbps |-> Rat(0, 1), dropsPct |-> Rat(0, 1),
   cpuPct |-> Rat(0, 1), health |-> 0,
   shown |-> 0, missing |-> 0, dt |-> 0, ticks |-> 0]

\* CamWindow's recorder fields as the struct is made: all nil; made, headers
\* and trailers count the containers allocated and the headers and trailers
\* written. recCtx is the container's number, 0 for nil; aEncStream points
\* into its container and is "stale" once that container is freed.
NoRecorder ==
  [recCtx |-> 0, recIO |-> FALSE, recStreamIx |-> FALSE, aEncCtx |-> FALSE,
   aSwr |-> FALSE, aEncFrame |-> FALSE, aEncStream |-> "nil",
   made |-> 0, headers |-> 0, trailers |-> 0]

\* no camera edited yet; restarted holds the open windows RestartWith was
\* called on, each with the name of its w.cfg before the call; own holds the
\* open windows of the registry that show the edited camera
NoEdit == [row |-> 0, name |-> 0, restarted |-> {}, own |-> {}]

\* the decode loop as go w.decodeLoop() starts it. n counts the attempts,
\* reads the packets read, done the closes of w.done; stop is w.stop closed;
\* fc is the format context open; ret is what openAndDecode returns; si is
\* the stream of the packet in hand; wrote, out and werr are the copy path's
\* write of it; outcome, dDrops, dErrs, put, conv are its decoding (how it
\* ended, what it added to framesDropped and decodeErrs, the frames put and
\* the frames that failed conversion); flushed is the run of frames the
\* decoder returned to the flush at end of stream; seenRec and
\* startFail are what the reconcile step read and met; recBy is the attempt
\* that opened the recorder
NoAttempt ==
  [pc |-> "dl_top", n |-> 0, reads |-> 0, done |-> 0, stop |-> FALSE,
   fc |-> FALSE, ret |-> "none", audio |-> FALSE, showDrops |-> FALSE,
   lastProgress |-> 0, si |-> -1, seenRec |-> FALSE, startFail |-> "none",
   recBy |-> 0, wrote |-> 0, out |-> -1, werr |-> FALSE,
   outcome |-> "none", dDrops |-> 0, dErrs |-> 0, put |-> 0, conv |-> 0,
   flushed |-> <<>>]

\* the bitrate sample before the configuration is loaded: the overlay flags,
\* the counter w.bytesVideo, the payload of the video packets read since the
\* last tick (read) and during the interval the last tick closed (interval),
\* the packets read since the last tick, the ticks so far
NoBitrate ==
  [loaded |-> FALSE, showBitrate |-> FALSE, showDrops |-> FALSE,
   bytesVideo |-> 0, read |-> 0, interval |-> 0, pkts |-> 0, ticks |-> 0]

\* no attempt is building decoder options: hint is w.cfg.HwAccel, params is
\* w.cfg.FFmpegParams, opts is vopts
NoOptions == [pc |-> "idle", hint |-> <<>>, params |-> <<>>, opts |-> EmptyMap]

\* newCamWindow has started the first decode loop; no restart is under way.
\* b is the value a loop has read in "if w.backoff < 30 s"
NoReconnect ==
  [pc |-> (1 :> "attempt") @@ (2 :> "none"), b |-> (1 :> 0) @@ (2 :> 0),
   rd |-> "idle"]

\* a camera that has not recorded yet: the wall clock in ms, the recorder
\* closed, the attempt running, no file made. files lists the output file
\* of every recording started, by the name recordingFilePath gave it
NoFiles == [clock |-> 0, open |-> FALSE, resumeAt |-> 0, files |-> <<>>]

\* no conversion context: s.ssc == nil
NoContext == [w |-> 0, h |-> 0, pix |-> "none"]

\* &bgraScaler{}: ssc and dst hold the parameters they were created with;
\* frame, before, rebuilt, err, outW, outH describe the last toBGRA call
NoScaler ==
  [ssc |-> NoContext, dst |-> NoContext,
   srcW |-> 0, srcH |-> 0, srcPix |-> "none", dstW |-> 0, dstH |-> 0,
   calls |-> 0, frame |-> NoContext, before |-> NoContext, rebuilt |-> FALSE,
   err |-> "none", outW |-> 0, outH |-> 0]

IdleThread == [pc |-> "idle", op |-> "none", ch |-> 0, timedOut |-> FALSE]
UnbornThread == [pc |-> "unborn", op |-> "none", ch |-> 0, timedOut |-> FALSE]
\* gen is the stop channel in place when the goroutine was started
UnbornLoop == [pc |-> "unborn", done |-> 0, stop |-> 0, gen |-> 0]

\* the decode thread outside put
IdleDecoder == [pc |-> "idle", w |-> 0, h |-> 0, i |-> 0]
\* the UI thread outside the paint event; seen is the seq of the get before
IdlePaint == [pc |-> "idle", seq |-> 0, w |-> 0, h |-> 0, arr |-> 0, len |-> 0,
              i |-> 0, img |-> <<>>, seen |-> 0]

\* newCamWindow: stop and done made, wantPlaying, backoff 1s, go decodeLoop
Init ==
  /\ w_stop = 1
  /\ w_done = 2
  /\ nextCh = 3
  /\ closedCh = {}
  /\ closing = FALSE
  /\ wantPlaying = TRUE
  /\ backoff = InitialBackoff
  /\ nextTry = 0
  /\ now = 0
  /\ panicked = "no"
  /\ thr = [t \in Threads |-> IF t = UI THEN IdleThread ELSE UnbornThread]
  /\ loops = [l \in LoopIds |->
                IF l = 1 THEN [UnbornLoop EXCEPT !.pc = "dl_start", !.gen = 1]
                ELSE UnbornLoop]
  /\ nLoops = 1
  /\ nRestarts = 0
  /\ nFails = 0
  /\ buf = [seq |-> 0, w |-> 0, h |-> 0, arr |-> 0, len |-> 0]
  /\ heap = [a \in Arrays |-> <<>>]
  /\ mu = "free"
  /\ dec = IdleDecoder
  /\ paint = IdlePaint
  /\ putLog = <<>>
  /\ pl = [pc |-> "setup", kind |-> "none", lastProgress |-> 0, audio |-> FALSE]
  /\ rec = NoRecorder
  /\ recording = FALSE
  /\ recLog = <<>>
  /\ met = NoMetrics
  /\ est = NoEstimator
  /\ prs = [s |-> <<>>, toks |-> <<>>, parsed |-> FALSE,
            fopts |-> EmptyMap, copts |-> EmptyMap]
  /\ san = [name |-> <<>>, url |-> <<>>, built |-> FALSE, camName |-> <<>>,
            dir |-> <<>>]
  /\ cams = StartCameras
  /\ dcams = StartCameras
  /\ cw = [i \in 1..Len(StartCameras) |->
             [cam |-> StartCameras[i].id, name |-> StartCameras[i].name,
              idx |-> i, open |-> TRUE]]
  /\ wins = [i \in 1..Len(StartCameras) |-> i]
  /\ actions = [i \in 1..Len(StartCameras) |-> TRUE]
  /\ posted = <<>>
  /\ trayPanic = FALSE
  /\ edit = NoEdit
  /\ timer = 0
  /\ at = NoAttempt
  /\ cfg = 1
  /\ cfgSeen = [l \in LoopIds |-> 0]
  /\ br = NoBitrate
  /\ vo = NoOptions
  /\ sc = NoScaler
  /\ rs = NoReconnect
  /\ rf = NoFiles

\* ------------------------------------------------- channel operations
IsClosed(c) == c \in closedCh

\* close(c): a close of a closed channel panics; what names the field closed
CloseChan(c, what) ==
  IF IsClosed(c)
    THEN /\ panicked' = what
         /\ UNCHANGED closedCh
    ELSE /\ closedCh' = closedCh \cup {c}
         /\ UNCHANGED panicked

\* a panic on any goroutine ends the process
Running == panicked = "no"

\* ------------------------------------------------------- decode loop
\* the loop holds an open format context (openAndDecode entered, not returned)
InAttempt(l) == loops[l].pc \in {"attempt", "wedged"}
ActiveLoops == {l \in LoopIds : InAttempt(l)}
\* the goroutine exists and has not returned
LiveLoop(l) == loops[l].pc \notin {"unborn", "exited"}

\* the loop's next statement runs at once: it is not blocked in the attempt's
\* network calls nor in the pause's select
Prompt(l) ==
  \/ loops[l].pc \in {"dl_start", "dl_top", "dl_pause", "dl_exit"}
  \/ loops[l].pc = "dl_select" /\ IsClosed(loops[l].stop)

\* the same for a handler: it is not in restartDecoder's wait or sleep nor
\* in Close's wait
PromptThread(t) ==
  \/ thr[t].pc \in {"sc_check", "sc_close", "rd_check", "rd_close", "rd_arg",
                   "rd_mkstop", "rd_mkdone", "cl_check", "cl_close", "cl_arg"}
  \/ thr[t].pc \in {"rd_wait", "cl_wait"} /\ IsClosed(thr[t].ch)

\* a timer (time.After, time.Sleep) expires only after the decode loops and
\* handlers that can run have run
TimePasses ==
  /\ \A l \in LoopIds : ~Prompt(l)
  /\ \A t \in Threads : ~PromptThread(t)

\* decodeLoop entry: defer close(w.done) evaluates w.done
LoopStart(l) ==
  /\ Running
  /\ loops[l].pc = "dl_start"
  /\ loops' = [loops EXCEPT ![l].pc = "dl_top", ![l].done = w_done]
  /\ UNCHANGED <<w_stop, w_done, closing, wantPlaying, closedCh, nextCh, panicked,
                 thr, nLoops, nRestarts, nFails, boVars, bufVars, extVars>>

\* a decode loop that returns at the top of an iteration whatever its stop channel
TopTargetOnce(stopClosed) == "dl_exit"

\* where the first select of an iteration takes the loop:
\* select { case <-w.stop: return; default: }, then openAndDecode
TopTarget(stopClosed) == IF stopClosed THEN "dl_exit" ELSE "attempt"

LoopTop(l) ==
  /\ Running
  /\ loops[l].pc = "dl_top"
  /\ loops' = [loops EXCEPT ![l].pc = TopTarget(IsClosed(w_stop)),
                            ![l].stop = IF TopTarget(IsClosed(w_stop)) = "dl_exit"
                                          THEN w_stop ELSE 0]
  /\ UNCHANGED <<w_stop, w_done, closing, wantPlaying, closedCh, nextCh, panicked,
                 thr, nLoops, nRestarts, nFails, boVars, bufVars, extVars>>

\* openAndDecode returns an error (setup: OpenInput, FindStreamInfo, no video
\* stream, FindDecoder, ...; packet loop: stall): the deferred frees run,
\* decodeLoop logs the error and calls w.setReconnectSoon()
AttemptFails(l, bound) ==
  /\ Running
  /\ loops[l].pc = "attempt"
  /\ nFails < bound
  /\ nFails' = nFails + 1
  /\ nextTry' = now + ReconnectDelay(backoff)
  /\ backoff' = ReconnectBackoff(backoff)
  /\ loops' = [loops EXCEPT ![l].pc = "dl_pause"]
  /\ UNCHANGED <<w_stop, w_done, closing, wantPlaying, closedCh, nextCh, panicked,
                 thr, nLoops, nRestarts, now, bufVars, extVars>>

AttemptError(l) == AttemptFails(l, MaxFails)

\* packet loop top: select { case <-w.stop: return nil; default: }; the
\* deferred frees run
PacketStop(l) ==
  /\ Running
  /\ loops[l].pc = "attempt"
  /\ IsClosed(w_stop)
  /\ loops' = [loops EXCEPT ![l].pc = "dl_pause"]
  /\ UNCHANGED <<w_stop, w_done, closing, wantPlaying, closedCh, nextCh, panicked,
                 thr, nLoops, nRestarts, nFails, boVars, bufVars, extVars>>

\* ReadFrame returns io.EOF: break, flush, return nil; the deferred frees run
EndOfStream(l) ==
  /\ Running
  /\ loops[l].pc = "attempt"
  /\ loops' = [loops EXCEPT ![l].pc = "dl_pause"]
  /\ UNCHANGED <<w_stop, w_done, closing, wantPlaying, closedCh, nextCh, panicked,
                 thr, nLoops, nRestarts, nFails, boVars, bufVars, extVars>>

\* a blocking call of the attempt (OpenInput, ReadFrame) never returns
Wedge(l) ==
  /\ Running
  /\ loops[l].pc = "attempt"
  /\ loops' = [loops EXCEPT ![l].pc = "wedged"]
  /\ UNCHANGED <<w_stop, w_done, closing, wantPlaying, closedCh, nextCh, panicked,
                 thr, nLoops, nRestarts, nFails, boVars, bufVars, extVars>>

\* the pause: select { case <-w.stop: ...; case <-time.After(1s): } evaluates
\* w.stop on entry
LoopPause(l) ==
  /\ Running
  /\ loops[l].pc = "dl_pause"
  /\ loops' = [loops EXCEPT ![l].pc = "dl_select", ![l].stop = w_stop]
  /\ UNCHANGED <<w_stop, w_done, closing, wantPlaying, closedCh, nextCh, panicked,
                 thr, nLoops, nRestarts, nFails, boVars, bufVars, extVars>>

\* the pause ends by the stop channel: return
PauseStop(l) ==
  /\ Running
  /\ loops[l].pc = "dl_select"
  /\ IsClosed(loops[l].stop)
  /\ loops' = [loops EXCEPT ![l].pc = "dl_exit"]
  /\ UNCHANGED <<w_stop, w_done, closing, wantPlaying, closedCh, nextCh, panicked,
                 thr, nLoops, nRestarts, nFails, boVars, bufVars, extVars>>

\* the pause ends by the timer: next iteration
PauseTimer(l) ==
  /\ Running
  /\ loops[l].pc = "dl_select"
  /\ ~IsClosed(loops[l].stop)
  /\ TimePasses
  /\ loops' = [loops EXCEPT ![l].pc = "dl_top", ![l].stop = 0]
  /\ UNCHANGED <<w_stop, w_done, closing, wantPlaying, closedCh, nextCh, panicked,
                 thr, nLoops, nRestarts, nFails, boVars, bufVars, extVars>>

\* return: the deferred close(done) runs
LoopExit(l) ==
  /\ Running
  /\ loops[l].pc = "dl_exit"
  /\ CloseChan(loops[l].done, "done")
  /\ loops' = [loops EXCEPT ![l].pc = "exited", ![l].done = 0, ![l].stop = 0]
  /\ UNCHANGED <<w_stop, w_done, closing, wantPlaying, nextCh,
                 thr, nLoops, nRestarts, nFails, boVars, bufVars, extVars>>

LoopStep(l) ==
  \/ LoopStart(l) \/ LoopTop(l) \/ AttemptError(l)
  \/ PacketStop(l) \/ EndOfStream(l)
  \/ LoopPause(l) \/ PauseStop(l) \/ PauseTimer(l) \/ LoopExit(l)

\* -------------------------------------------- handlers: entry points
\* the UI thread runs one handler at a time
UIIdle ==
  /\ Running
  /\ thr[UI].pc = "idle"

\* a restartDecoder call needs a decode loop to start at its end
CanRestart == nRestarts < MaxRestarts

\* the session is still in the window registry (wins): Close takes it out
Registered == ~closing

\* StopCamera (tray: Pause cameras)
StopCamera ==
  /\ UIIdle
  /\ Registered
  /\ thr' = [thr EXCEPT ![UI] = [IdleThread EXCEPT !.pc = "sc_check", !.op = "Stop"]]
  /\ UNCHANGED <<w_stop, w_done, closing, wantPlaying, closedCh, nextCh, panicked,
                 loops, nLoops, nRestarts, nFails, boVars, bufVars, extVars>>

\* StartCamera (tray: Resume cameras): w.restartDecoder("Start")
StartCamera ==
  /\ UIIdle
  /\ Registered
  /\ CanRestart
  /\ thr' = [thr EXCEPT ![UI] = [IdleThread EXCEPT !.pc = "rd_check", !.op = "Start"]]
  /\ nRestarts' = nRestarts + 1
  /\ UNCHANGED <<w_stop, w_done, closing, wantPlaying, closedCh, nextCh, panicked,
                 loops, nLoops, nFails, boVars, bufVars, extVars>>

\* RestartWith (settings edit): w.cfg = c; w.backoff = 250ms; restartDecoder
RestartWith ==
  /\ UIIdle
  /\ Registered
  /\ CanRestart
  /\ cfg' = cfg + 1
  /\ backoff' = ShortBackoff
  /\ thr' = [thr EXCEPT ![UI] = [IdleThread EXCEPT !.pc = "rd_check", !.op = "RestartWith"]]
  /\ nRestarts' = nRestarts + 1
  /\ UNCHANGED <<w_stop, w_done, closing, wantPlaying, closedCh, nextCh, panicked,
                 loops, nLoops, nFails, nextTry, now, bufVars, restConfig, cfgSeen>>

\* OnResumeFromSleep: returns when closing, else go w.restartDecoder("Wake")
OnResumeFromSleep(g) ==
  /\ UIIdle
  /\ IF closing
       THEN UNCHANGED <<thr, nRestarts>>
       ELSE /\ CanRestart
            /\ thr[g].pc = "unborn"
            /\ \A h \in WakeThreads : h < g => thr[h].pc # "unborn"
            /\ thr' = [thr EXCEPT ![g] = [IdleThread EXCEPT !.pc = "rd_check", !.op = "Wake"]]
            /\ nRestarts' = nRestarts + 1
  /\ UNCHANGED <<w_stop, w_done, closing, wantPlaying, closedCh, nextCh, panicked,
                 loops, nLoops, nFails, boVars, bufVars, extVars>>

\* Close: w.closing = true; w.wantPlaying = false
Close ==
  /\ UIIdle
  /\ closing' = TRUE
  /\ wantPlaying' = FALSE
  /\ thr' = [thr EXCEPT ![UI] = [IdleThread EXCEPT !.pc = "cl_check", !.op = "Close"]]
  /\ UNCHANGED <<w_stop, w_done, closedCh, nextCh, panicked,
                 loops, nLoops, nRestarts, nFails, boVars, bufVars, extVars>>

\* ------------------------------------------------ handlers: statements
\* where a handler that has finished leaves its thread
Finished(t) == IF t = UI THEN "idle" ELSE "finished"

\* thread t at statement pc; a handler that returns drops its locals
Goto(t, pc) ==
  IF pc \in {"idle", "finished"}
    THEN [IdleThread EXCEPT !.pc = pc]
    ELSE [thr[t] EXCEPT !.pc = pc]

\* select { case <-w.stop: (already closed); default: close(w.stop) }:
\* the select finds w.stop closed or takes the default branch
CheckStop(t, from, closeAt, after) ==
  /\ Running
  /\ thr[t].pc = from
  /\ thr' = [thr EXCEPT ![t] = Goto(t, IF IsClosed(w_stop) THEN after ELSE closeAt)]
  /\ UNCHANGED <<w_stop, w_done, closing, wantPlaying, closedCh, nextCh, panicked,
                 loops, nLoops, nRestarts, nFails, boVars, bufVars, extVars>>

\* the default branch: close(w.stop) reads the field again
CloseStop(t, from, after) ==
  /\ Running
  /\ thr[t].pc = from
  /\ CloseChan(w_stop, "stop")
  /\ thr' = [thr EXCEPT ![t] = Goto(t, after)]
  /\ UNCHANGED <<w_stop, w_done, closing, wantPlaying, nextCh,
                 loops, nLoops, nRestarts, nFails, boVars, bufVars, extVars>>

\* StopCamera
StopCheck == CheckStop(UI, "sc_check", "sc_close", Finished(UI))
StopClose == CloseStop(UI, "sc_close", Finished(UI))

\* restartDecoder: stop the current loop
RestartCheck(t) == CheckStop(t, "rd_check", "rd_close", "rd_arg")
RestartClose(t) == CloseStop(t, "rd_close", "rd_arg")

\* restartDecoder: go func(done){ <-done; close(waitCh) }(w.done) evaluates w.done
RestartArg(t) ==
  /\ Running
  /\ thr[t].pc = "rd_arg"
  /\ thr' = [thr EXCEPT ![t].pc = "rd_wait", ![t].ch = w_done]
  /\ UNCHANGED <<w_stop, w_done, closing, wantPlaying, closedCh, nextCh, panicked,
                 loops, nLoops, nRestarts, nFails, boVars, bufVars, extVars>>

\* select { case <-waitCh: }: the awaited done channel was closed
RestartWaitDone(t) ==
  /\ Running
  /\ thr[t].pc = "rd_wait"
  /\ IsClosed(thr[t].ch)
  /\ thr' = [thr EXCEPT ![t].pc = "rd_backoff"]
  /\ UNCHANGED <<w_stop, w_done, closing, wantPlaying, closedCh, nextCh, panicked,
                 loops, nLoops, nRestarts, nFails, boVars, bufVars, extVars>>

\* restartDecoder waiting with <-w.done alone
WaitForever(t) == FALSE

\* restartDecoder's select has a second branch, case <-time.After(2s): it is
\* taken when 2 s pass and the awaited done channel is still open
WaitTimesOut(t) == ~IsClosed(thr[t].ch) /\ TimePasses

\* select { case <-time.After(2s): }: timed out waiting, proceed anyway
RestartWaitTimeout(t) ==
  /\ Running
  /\ thr[t].pc = "rd_wait"
  /\ WaitTimesOut(t)
  /\ thr' = [thr EXCEPT ![t].pc = "rd_backoff", ![t].timedOut = TRUE]
  /\ UNCHANGED <<w_stop, w_done, closing, wantPlaying, closedCh, nextCh, panicked,
                 loops, nLoops, nRestarts, nFails, boVars, bufVars, extVars>>

\* time.Sleep(350ms); if w.backoff == 0 || w.backoff > time.Second { 250ms }
RestartAdjust(t) ==
  /\ Running
  /\ thr[t].pc = "rd_backoff"
  /\ TimePasses
  /\ backoff' = RestartBackoff(backoff)
  /\ thr' = [thr EXCEPT ![t].pc = "rd_mkstop"]
  /\ UNCHANGED <<w_stop, w_done, closing, wantPlaying, closedCh, nextCh, panicked,
                 loops, nLoops, nRestarts, nFails, nextTry, now, bufVars, extVars>>

\* w.stop = make(chan struct{})
RestartMakeStop(t) ==
  /\ Running
  /\ thr[t].pc = "rd_mkstop"
  /\ w_stop' = nextCh
  /\ nextCh' = nextCh + 1
  /\ thr' = [thr EXCEPT ![t].pc = "rd_mkdone"]
  /\ UNCHANGED <<w_done, closing, wantPlaying, closedCh, panicked,
                 loops, nLoops, nRestarts, nFails, boVars, bufVars, extVars>>

\* w.done = make(chan struct{}); go w.decodeLoop()
RestartMakeDoneGo(t) ==
  /\ Running
  /\ thr[t].pc = "rd_mkdone"
  /\ nLoops < MaxLoops
  /\ w_done' = nextCh
  /\ nextCh' = nextCh + 1
  /\ loops' = [loops EXCEPT ![nLoops + 1].pc = "dl_start",
                            ![nLoops + 1].gen = w_stop]
  /\ nLoops' = nLoops + 1
  /\ thr' = [thr EXCEPT ![t] = Goto(t, Finished(t))]
  /\ UNCHANGED <<w_stop, closing, wantPlaying, closedCh, panicked,
                 nRestarts, nFails, boVars, bufVars, extVars>>

RestartStep(t) ==
  \/ RestartCheck(t) \/ RestartClose(t) \/ RestartArg(t)
  \/ RestartWaitDone(t) \/ RestartWaitTimeout(t) \/ RestartAdjust(t)
  \/ RestartMakeStop(t) \/ RestartMakeDoneGo(t)

\* Close: stop current decoder
CloseCheck == CheckStop(UI, "cl_check", "cl_close", "cl_arg")
CloseClose == CloseStop(UI, "cl_close", "cl_arg")

\* Close: <-w.done evaluates w.done
CloseArg ==
  /\ Running
  /\ thr[UI].pc = "cl_arg"
  /\ thr' = [thr EXCEPT ![UI].pc = "cl_wait", ![UI].ch = w_done]
  /\ UNCHANGED <<w_stop, w_done, closing, wantPlaying, closedCh, nextCh, panicked,
                 loops, nLoops, nRestarts, nFails, boVars, bufVars, extVars>>

\* Close: <-w.done receives; the timers are stopped and the window closed
CloseWait ==
  /\ Running
  /\ thr[UI].pc = "cl_wait"
  /\ IsClosed(thr[UI].ch)
  /\ thr' = [thr EXCEPT ![UI] = Goto(UI, Finished(UI))]
  /\ UNCHANGED <<w_stop, w_done, closing, wantPlaying, closedCh, nextCh, panicked,
                 loops, nLoops, nRestarts, nFails, boVars, bufVars, extVars>>

CloseStep == CloseCheck \/ CloseClose \/ CloseArg \/ CloseWait
StopStep == StopCheck \/ StopClose

Next ==
  \/ StopCamera \/ StartCamera \/ RestartWith \/ Close
  \/ \E g \in WakeThreads : OnResumeFromSleep(g)
  \/ StopStep \/ CloseStep
  \/ \E t \in Threads : RestartStep(t)
  \/ \E l \in LoopIds : LoopStep(l)
  \/ \E l \in LoopIds : Wedge(l)

Spec == Init /\ [][Next]_vars

\* ------------------------------------------------------- scheduling
\* the statements of a decode loop the Go scheduler runs: all but the
\* returns of the attempt's blocking calls, which the camera decides
LoopSched(l) ==
  \/ LoopStart(l) \/ LoopTop(l) \/ LoopPause(l)
  \/ PauseStop(l) \/ PauseTimer(l) \/ LoopExit(l)

\* a runnable goroutine is run and an armed timer fires; a timer's step is
\* enabled again and again rather than continuously, hence SF
Fairness ==
  /\ WF_vars(StopStep)
  /\ WF_vars(CloseStep)
  /\ \A t \in Threads : SF_vars(RestartStep(t))
  /\ \A l \in LoopIds : SF_vars(LoopSched(l))

\* the decode loop of newCamWindow against StopCamera and Close
NextLoop ==
  \/ StopCamera \/ Close
  \/ StopStep \/ CloseStep
  \/ LoopStep(1)
  \/ Wedge(1)

SpecLoop == Init /\ [][NextLoop]_vars /\ Fairness

\* the restart requests against the decode loops
NextRestart ==
  \/ StartCamera \/ RestartWith
  \/ \E g \in WakeThreads : OnResumeFromSleep(g)
  \/ \E t \in Threads : RestartStep(t)
  \/ \E l \in LoopIds : LoopStep(l)
  \/ \E l \in LoopIds : Wedge(l)

SpecRestart == Init /\ [][NextRestart]_vars /\ Fairness

\* ------------------------------------------------------ SpecBackoff
\* the decode loop's failure with the longer run of SpecBackoff
AttemptErrorRun == AttemptFails(1, MaxRun)

\* a second passes
Tick ==
  /\ now < MaxClock * 1000
  /\ now' = now + 1000
  /\ UNCHANGED <<lifeVars, backoff, nextTry, bufVars, extVars>>

NextBackoff ==
  \/ LoopStart(1) \/ LoopTop(1) \/ AttemptErrorRun \/ EndOfStream(1)
  \/ LoopPause(1) \/ PauseTimer(1)
  \/ Tick

SpecBackoff == Init /\ [][NextBackoff]_vars

\* ---------------------------------------------------------- SpecBuf
\* cap(f.b) in bytes; the nil slice has none
Cap(a) == IF a = 0 THEN 0 ELSE Len(heap[a]) * BytesPerPixel

\* n := w * h * 4
FrameBytes(w, h) == w * h * BytesPerPixel

\* the array make() returns
NewArray == CHOOSE a \in Arrays : heap[a] = <<>> /\ \A b \in Arrays : b < a => heap[b] # <<>>

\* put always taking the lock free
LockNeverHeld == TRUE

\* f.mu.Lock() and f.mu.RLock() go through when no put holds the lock
LockFree == mu = "free"

\* put: f.mu.Lock(); defer f.mu.Unlock()
PutLock ==
  /\ dec.pc = "idle"
  /\ LockFree
  /\ buf.seq < MaxPuts
  /\ \E d \in Dims : dec' = [pc |-> "p_size", w |-> d[1], h |-> d[2], i |-> 0]
  /\ mu' = "put"
  /\ UNCHANGED <<extVars, lifeVars, boVars, buf, heap, paint, putLog>>

\* put: if cap(f.b) < n { f.b = make([]byte, n) } else { f.b = f.b[:n] }
PutSize ==
  /\ dec.pc = "p_size"
  /\ LET n == FrameBytes(dec.w, dec.h)
     IN IF Cap(buf.arr) < n
          THEN /\ buf' = [buf EXCEPT !.arr = NewArray, !.len = n]
               /\ heap' = [heap EXCEPT ![NewArray] = [k \in 1..(n \div BytesPerPixel) |-> 0]]
          ELSE /\ buf' = [buf EXCEPT !.len = n]
               /\ UNCHANGED heap
  /\ dec' = [dec EXCEPT !.pc = "p_copy"]
  /\ UNCHANGED <<extVars, lifeVars, boVars, mu, paint, putLog>>

\* put: copy(f.b, src), a pixel at a time; the pixel carries the put's number
PutCopy ==
  /\ dec.pc = "p_copy"
  /\ dec.i < buf.len \div BytesPerPixel
  /\ heap' = [heap EXCEPT ![buf.arr][dec.i + 1] = buf.seq + 1]
  /\ dec' = [dec EXCEPT !.i = dec.i + 1]
  /\ UNCHANGED <<extVars, lifeVars, boVars, buf, mu, paint, putLog>>

\* put: f.w = w; f.h = h; return atomic.AddUint64(&f.seq, 1); the deferred
\* Unlock runs
PutSet ==
  /\ dec.pc = "p_copy"
  /\ dec.i = buf.len \div BytesPerPixel
  /\ buf' = [buf EXCEPT !.w = dec.w, !.h = dec.h, !.seq = buf.seq + 1]
  /\ mu' = "free"
  /\ dec' = IdleDecoder
  /\ putLog' = Append(putLog, <<dec.w, dec.h>>)
  /\ UNCHANGED <<extVars, lifeVars, boVars, heap, paint>>

\* paint event: seq, srcW, srcH, data := w.buf.get(), all of get under
\* RLock; data is the slice header, it shares the backing array
PaintGet ==
  /\ paint.pc = "idle"
  /\ LockFree
  /\ paint' = [pc |-> "pe_guard", seq |-> buf.seq, w |-> buf.w, h |-> buf.h,
               arr |-> buf.arr, len |-> buf.len, i |-> 0, img |-> <<>>,
               seen |-> paint.seq]
  /\ UNCHANGED <<extVars, lifeVars, boVars, buf, heap, mu, dec, putLog>>

\* if seq == 0 || srcW <= 0 || srcH <= 0 || len(data) < srcW*srcH*4
NoFrame ==
  \/ paint.seq = 0 \/ paint.w <= 0 \/ paint.h <= 0
  \/ paint.len < FrameBytes(paint.w, paint.h)

\* paint event: no frame, return
PaintSkip ==
  /\ paint.pc = "pe_guard"
  /\ NoFrame
  /\ paint' = [paint EXCEPT !.pc = "idle"]
  /\ UNCHANGED <<extVars, lifeVars, boVars, buf, heap, mu, dec, putLog>>

\* paint event: img := qt.NewQImage3(srcW, srcH, Format_RGB32)
PaintImage ==
  /\ paint.pc = "pe_guard"
  /\ ~NoFrame
  /\ paint' = [paint EXCEPT !.pc = "pe_copy"]
  /\ UNCHANGED <<extVars, lifeVars, boVars, buf, heap, mu, dec, putLog>>

\* paint event: copy(dst, data[:srcW*srcH*4]), a pixel at a time, no lock held
PaintCopy ==
  /\ paint.pc = "pe_copy"
  /\ paint.i < paint.w * paint.h
  /\ paint' = [paint EXCEPT !.img = Append(paint.img, heap[paint.arr][paint.i + 1]),
                            !.i = paint.i + 1]
  /\ UNCHANGED <<extVars, lifeVars, boVars, buf, heap, mu, dec, putLog>>

\* paint event: the copy is complete, the image is drawn
PaintDraw ==
  /\ paint.pc = "pe_copy"
  /\ paint.i = paint.w * paint.h
  /\ paint' = [paint EXCEPT !.pc = "pe_draw"]
  /\ UNCHANGED <<extVars, lifeVars, boVars, buf, heap, mu, dec, putLog>>

\* paint event: return; the deferred img.Delete() runs
PaintEnd ==
  /\ paint.pc = "pe_draw"
  /\ paint' = [paint EXCEPT !.pc = "idle", !.i = 0, !.img = <<>>]
  /\ UNCHANGED <<extVars, lifeVars, boVars, buf, heap, mu, dec, putLog>>

NextBuf ==
  \/ PutLock \/ PutSize \/ PutCopy \/ PutSet
  \/ PaintGet \/ PaintSkip \/ PaintImage \/ PaintCopy \/ PaintDraw \/ PaintEnd

SpecBuf == Init /\ [][NextBuf]_vars

\* --------------------------------------------------------- SpecStall
\* openAndDecode's packet loop against the clock, no stop raised
restStall == <<lifeVars, backoff, nextTry, bufVars, recVars, metVars, estVars, prsVars, sanVars,
  trayVars, pauseVars, attVars, cfgVars, brVars, voVars, scVars, rsVars, rfVars>>

\* time.Since(lastProgress) > stallCutoff
Stalled(last) == now - last > StallCutoff

\* where the end of an iteration takes the loop: the watchdog's return or
\* the next iteration
AfterCheck(last) == IF Stalled(last) THEN "stalled" ELSE "top"

\* lastProgress := time.Now(); audio is aCtx != nil && !w.cfg.Mute
PktLoopStart ==
  /\ pl.pc = "setup"
  /\ \E a \in BOOLEAN :
       pl' = [pc |-> "top", kind |-> "none", lastProgress |-> now, audio |-> a]
  /\ UNCHANGED <<restStall, now>>

\* fc.ReadFrame(pkt): an error, io.EOF, or a packet of the audio or of the
\* video stream
PktRead ==
  /\ pl.pc = "top"
  /\ \E k \in {"fail", "eof", "audio", "video"} :
       pl' = [pl EXCEPT !.pc = "got", !.kind = k]
  /\ UNCHANGED <<restStall, now>>

\* a read error that is not io.EOF: the stall check, else sleep and continue
PktFail ==
  /\ pl.pc = "got"
  /\ pl.kind = "fail"
  /\ pl' = [pl EXCEPT !.pc = AfterCheck(pl.lastProgress), !.kind = "none"]
  /\ UNCHANGED <<restStall, now>>

\* io.EOF: break, flush, return nil
PktEOF ==
  /\ pl.pc = "got"
  /\ pl.kind = "eof"
  /\ pl' = [pl EXCEPT !.pc = "ended", !.kind = "none"]
  /\ UNCHANGED <<restStall, now>>

\* an audio packet: with the audio decoder open and not muted it is decoded,
\* played, pkt.Unref(), continue; else it falls through to the end of the
\* iteration
PktAudio ==
  /\ pl.pc = "got"
  /\ pl.kind = "audio"
  /\ pl' = [pl EXCEPT !.pc = IF pl.audio THEN "top" ELSE AfterCheck(pl.lastProgress),
                      !.kind = "none"]
  /\ UNCHANGED <<restStall, now>>

\* a video packet: each frame received is converted and put, lastProgress =
\* time.Now(); then pkt.Unref() and the watchdog
PktVideo ==
  /\ pl.pc = "got"
  /\ pl.kind = "video"
  /\ \E published \in BOOLEAN :
       LET last == IF published THEN now ELSE pl.lastProgress
       IN pl' = [pl EXCEPT !.pc = AfterCheck(last), !.kind = "none",
                           !.lastProgress = last]
  /\ UNCHANGED <<restStall, now>>

\* five seconds pass
StallTick ==
  /\ pl.pc \in {"top", "got"}
  /\ now < MaxStallTicks * 5000
  /\ now' = now + 5000
  /\ UNCHANGED <<restStall, pl>>

NextStall ==
  \/ PktLoopStart \/ PktRead \/ PktFail \/ PktEOF \/ PktAudio \/ PktVideo
  \/ StallTick

SpecStall == Init /\ [][NextStall]_vars

\* ----------------------------------------------------------- SpecRec
\* The recorder closures of openAndDecode, run on the decode goroutine.
restRec == <<lifeVars, boVars, bufVars, stallVars, metVars, estVars, prsVars, sanVars,
  trayVars, pauseVars, attVars, cfgVars, brVars, voVars, scVars, rsVars, rfVars>>

\* what startRecorder can meet: the step that fails, and how far the AAC
\* pipeline gets when the input has a decoded audio stream
StartFailures == {"none", "path", "container", "io", "nostream", "header"}
AudioOutcomes == {"noaudio", "noencoder", "noalloc", "openfail", "nostream",
                  "noswr", "ok"}

\* a recorder that answers "closed" whatever its state
RecorderOpenNever(r) == FALSE

\* w.recCtx != nil
RecorderOpen(r) == r.recCtx # 0

\* freeing a container frees its streams: a pointer to one dangles
FreeStreams(st) == IF st = "live" THEN "stale" ELSE st

\* a closeRecorder that leaves the recorder as it is
CloseNothing(r) == r

\* closeRecorder: flush the encoder, write the trailer, free and nil the fields
CloseRecorder(r) ==
  IF ~RecorderOpen(r) THEN r
  ELSE [r EXCEPT !.trailers = @ + 1,
                 !.recIO = FALSE,
                 !.recCtx = 0,
                 !.aEncFrame = FALSE,
                 !.aSwr = FALSE,
                 !.aEncCtx = FALSE,
                 !.recStreamIx = FALSE,
                 !.aEncStream = FreeStreams(@)]

\* startRecorder, "Audio stream: re-encode to AAC": every failure is logged
\* and the function goes on to the header
AudioSetup(r, aac) ==
  IF aac \in {"noaudio", "noencoder", "noalloc", "openfail"} THEN r
  ELSE IF aac = "nostream" THEN [r EXCEPT !.aEncCtx = TRUE]
  ELSE IF aac = "noswr" THEN [r EXCEPT !.aEncCtx = TRUE, !.aEncStream = "live"]
  ELSE [r EXCEPT !.aEncCtx = TRUE, !.aEncStream = "live",
                 !.aSwr = TRUE, !.aEncFrame = TRUE]

\* startRecorder
StartRecorder(r, fail, aac) ==
  IF RecorderOpen(r) THEN r
  ELSE IF fail \in {"path", "container"} THEN CloseRecorder(r)
  ELSE LET oc == [r EXCEPT !.made = @ + 1] IN
    IF fail = "io" THEN CloseRecorder(oc)
    ELSE LET vs == [oc EXCEPT !.recStreamIx = TRUE] IN
      IF fail = "nostream"
      THEN CloseRecorder([vs EXCEPT !.recStreamIx = FALSE])
      ELSE LET au == AudioSetup(vs, aac) IN
        IF fail = "header"
        THEN CloseRecorder([au EXCEPT !.recStreamIx = FALSE,
                                      !.aSwr = FALSE,
                                      !.aEncCtx = FALSE,
                                      !.aEncFrame = FALSE,
                                      !.aEncStream = FreeStreams(@)])
        ELSE [au EXCEPT !.headers = @ + 1, !.recCtx = au.made, !.recIO = TRUE]

Logged(op, fail, before, after) ==
  Append(recLog, [op |-> op, fail |-> fail, before |-> before, after |-> after])

\* ToggleRecording (the hotkey, on the UI thread)
ToggleRecording ==
  /\ recording' = ~recording
  /\ UNCHANGED <<restRec, rec, recLog>>

\* the packet loop, "Check hotkey state and start/stop recording as needed"
RecReconcile ==
  /\ Len(recLog) < MaxRecCalls
  /\ IF recording
     THEN /\ ~RecorderOpen(rec)
          /\ \E fail \in StartFailures, aac \in AudioOutcomes :
               /\ rec' = StartRecorder(rec, fail, aac)
               /\ recLog' = Logged("start", fail, rec, rec')
     ELSE /\ RecorderOpen(rec)
          /\ rec' = CloseRecorder(rec)
          /\ recLog' = Logged("close", "none", rec, rec')
  /\ UNCHANGED <<restRec, recording>>

\* startRecorder called with the recorder in any state
StartRecorderCall ==
  /\ Len(recLog) < MaxRecCalls
  /\ \E fail \in StartFailures, aac \in AudioOutcomes :
       /\ rec' = StartRecorder(rec, fail, aac)
       /\ recLog' = Logged("start", fail, rec, rec')
  /\ UNCHANGED <<restRec, recording>>

\* closeRecorder called with the recorder in any state (the deferred call
\* and the calls on startRecorder's failure paths included)
CloseRecorderCall ==
  /\ Len(recLog) < MaxRecCalls
  /\ rec' = CloseRecorder(rec)
  /\ recLog' = Logged("close", "none", rec, rec')
  /\ UNCHANGED <<restRec, recording>>

NextRec == ToggleRecording \/ RecReconcile \/ StartRecorderCall \/ CloseRecorderCall
SpecRec == Init /\ [][NextRec]_vars

\* ------------------------------------------------------- SpecMetrics
\* The metrics timer of newCamWindow: every tick reads the shared counters
\* and computes the snapshot. Counters are frames, bytes and milliseconds of
\* busy time; dt is in milliseconds.
restMetrics == <<lifeVars, boVars, bufVars, stallVars, recVars, estVars, prsVars, sanVars,
  trayVars, pauseVars, attVars, cfgVars, brVars, voVars, scVars, rsVars, rfVars>>

\* the values a tick can read from framesDecoded, framesDropped, bytesVideo
\* and busyNS, and the time since the previous tick
FrameCounts == {0, 1, 10, 20, 30}
DropCounts == {0, 1, 2, 5}
ByteCounts == {0, 125000}
BusyCounts == {0, 500, 5000}
TickGaps == {500, 1000}

RatGE(r, k) == r.num >= k * r.den
RatGT(r, k) == r.num > k * r.den
RatLE(r, k) == r.num <= k * r.den

\* a delta that keeps its sign
DeltaRaw(d) == d

\* if d < 0 { d = 0 }
Delta(d) == IF d < 0 THEN 0 ELSE d

\* if pct < 0 { pct = 0 }; if pct > hi { pct = hi }
ClampPct(r, hi) ==
  IF r.num < 0 THEN Rat(0, 1)
  ELSE IF RatGT(r, hi) THEN Rat(hi, 1)
  ELSE r

\* the switch on w.fps
HealthBase(fps) ==
  IF RatGE(fps, 24) THEN 5
  ELSE IF RatGE(fps, 15) THEN 4
  ELSE IF RatGE(fps, 5) THEN 3
  ELSE IF RatGT(fps, 0) THEN 2
  ELSE 0

\* a health score without the drop penalty
HealthNoPenalty(fps, drops) == HealthBase(fps)

\* "simple health heuristic 0..5"
Health(fps, drops) ==
  LET score == HealthBase(fps) IN
  IF RatGT(drops, 10) /\ score > 0 THEN score - 1 ELSE score

\* the timer's callback for dt > 0
Sample(m, fd, by, dr, busy, dt) ==
  LET dF == Delta(fd - m.lastMFrames)
      dB == Delta(by - m.lastMBytes)
      dD == Delta(dr - m.lastMDrops)
      dBusy == Delta(busy - m.lastMBusy)
      fps == Rat(dF * 1000, dt)
      den == dF + dD
      drops == IF den > 0 THEN ClampPct(Rat(100 * dD, den), 100) ELSE Rat(0, 1)
  IN [lastMFrames |-> fd, lastMBytes |-> by, lastMDrops |-> dr,
      lastMBusy |-> busy,
      fps |-> fps,
      bitrateKbps |-> Rat(dB * 8, dt),
      dropsPct |-> drops,
      cpuPct |-> ClampPct(Rat(dBusy * 100, dt), 400),
      health |-> Health(fps, drops),
      shown |-> dF, missing |-> dD, dt |-> dt, ticks |-> 1]

\* a tick of the 1 s timer
MetricsTick ==
  /\ \E fd \in FrameCounts, by \in ByteCounts, dr \in DropCounts,
        busy \in BusyCounts, dt \in TickGaps :
       met' = Sample(met, fd, by, dr, busy, dt)
  /\ UNCHANGED restMetrics

\* a tick that finds dt <= 0 returns and leaves every field
MetricsSkip ==
  /\ met.ticks > 0
  /\ met' = [met EXCEPT !.ticks = 2]
  /\ UNCHANGED restMetrics

NextMetrics == MetricsTick \/ MetricsSkip
SpecMetrics == Init /\ [][NextMetrics]_vars

\* --------------------------------------------------------- SpecDrops
\* The PTS gap estimator of the packet loop, with globalConfig.ShowDrops on.
restDrops == <<lifeVars, boVars, bufVars, stallVars, recVars, metVars, prsVars, sanVars,
  trayVars, pauseVars, attVars, cfgVars, brVars, voVars, scVars, rsVars, rfVars>>

\* the stream's time base (ticks of 10 ms) and the nominal frame rates
\* 60/s, 25/s, 1/s and one frame in 2 s, as numerator and denominator
TimeBases == {<<1, 100>>}
FrameRates == {<<60, 1>>, <<25, 1>>, <<1, 1>>, <<1, 2>>}
\* pkt.Pts() and pkt.Dts(), in ticks; -1 stands for AV_NOPTS_VALUE
Stamps == {-1, 0, 4, 16, 100, 400, 412, 1000}

\* int(math.Round(p / q)) for p >= 0, q > 0: halves round away from zero
RoundDiv(p, q) == (2 * p + q) \div (2 * q)

\* a gap of any length counted
GapAlways(dPTS, e) == TRUE

\* deltaSec <= 3.0 && frameDur > 0
GapCounted(dPTS, e) == dPTS * e.tbNum <= 3 * e.tbDen /\ e.fpsDen > 0

\* what a gap of dPTS ticks adds to framesDropped
Missing(dPTS, e) ==
  IF GapCounted(dPTS, e)
  THEN LET exp == RoundDiv(dPTS * e.tbNum * e.fpsNom, e.tbDen * e.fpsDen)
           miss == exp - 1
       IN IF miss > 0 /\ miss < 120 THEN miss ELSE 0
  ELSE 0

\* pts := pkt.Pts(); if pts <= 0 { pts = pkt.Dts() }
Stamp(pts, dts) == IF pts <= 0 THEN dts ELSE pts

\* openAndDecode, "initialize PTS gap estimator"
EstimatorInit ==
  /\ ~est.open
  /\ \E tb \in TimeBases, r \in FrameRates :
       est' = [est EXCEPT !.open = TRUE, !.pktPtsInited = FALSE,
                          !.tbNum = tb[1], !.tbDen = tb[2],
                          !.fpsNom = r[1], !.fpsDen = r[2]]
  /\ UNCHANGED restDrops

\* a video packet passes the estimator
VideoPacket ==
  /\ est.open
  /\ est.n < MaxPkts
  /\ \E p \in Stamps, d \in Stamps :
       LET pts == Stamp(p, d)
           seen == [est EXCEPT !.n = @ + 1, !.prev = est.ts, !.ts = pts,
                               !.added = 0]
       IN est' =
            IF pts > 0 /\ est.tbDen > 0 /\ est.fpsNom > 0 /\ est.fpsDen > 0
            THEN IF ~est.pktPtsInited
                 THEN [seen EXCEPT !.lastPktPTS = pts, !.pktPtsInited = TRUE]
                 ELSE LET dPTS == pts - est.lastPktPTS
                          miss == IF dPTS > 0 THEN Missing(dPTS, est) ELSE 0
                      IN [seen EXCEPT !.lastPktPTS = pts,
                                      !.framesDropped = @ + miss,
                                      !.added = miss]
            ELSE seen
  /\ UNCHANGED restDrops

NextDrops == EstimatorInit \/ VideoPacket
SpecDrops == Init /\ [][NextDrops]_vars

\* -------------------------------------------------------- SpecParams
\* parseFFmpegParams on the params string of a camera.
restParams == <<lifeVars, boVars, bufVars, stallVars, recVars, metVars, estVars, sanVars,
  trayVars, pauseVars, attVars, cfgVars, brVars, voVars, scVars, rsVars, rfVars>>

\* tokens a user can type, and the white space between two of them
ParamTokens ==
  {<<"-", "f", "k", "=", "v">>, <<"-", "c", "k", "=", "v">>,
   <<"-", "f", "j", "=", "w">>, <<"-", "f", "k", "=", "\"", "v", "\"">>,
   <<"-", "c", "k", "=", "'", "v", "'">>,
   <<"-", "f", "k", "=", "\"", "v", "'">>,
   <<"-", "f", "k", "=", "\"", "\"">>, <<"-", "f", "k", "=", "\"">>,
   <<"-", "f", "k", "=">>, <<"-", "f", "=", "v">>, <<"-", "b", "a", "d">>,
   <<"-", "f">>, <<"-", "x", "k", "=", "v">>, <<"f", "k", "=", "v">>,
   <<"-", "f", "k", "=", "v", "=", "w">>}
Blanks == {<<" ">>, <<" ", "\t", " ">>}

\* the example of the README and of P5
ExampleParams ==
  <<"-", "f", "s", "t", "i", "m", "e", "o", "u", "t", "=", "5", "0", "0",
    "0", "0", "0", "0", " ", "-", "c", "t", "h", "r", "e", "a", "d", "s",
    "=", "2", " ", "-", "b", "a", "d", "t", "o", "k", "e", "n", " ", "-",
    "f", "u", "s", "e", "r", "_", "a", "g", "e", "n", "t", "=", "\"", "M",
    "y", "/", "1", ".", "0", "\"">>

IsSpace(ch) == ch \in {" ", "\t"}

\* strings.Fields: the maximal runs of characters that are not white space
RECURSIVE Fields(_)
Fields(s) ==
  IF s = <<>> THEN <<>>
  ELSE IF IsSpace(Head(s)) THEN Fields(Tail(s))
  ELSE LET n == CHOOSE n \in 1..Len(s) :
                  /\ \A i \in 1..n : ~IsSpace(s[i])
                  /\ (n = Len(s) \/ IsSpace(s[n + 1]))
       IN <<SubSeq(s, 1, n)>> \o Fields(SubSeq(s, n + 1, Len(s)))

\* strings.IndexByte: the index from 0 of the first ch, or -1
IndexByte(s, ch) ==
  IF \E i \in 1..Len(s) : s[i] = ch
  THEN (CHOOSE i \in 1..Len(s) : s[i] = ch /\ \A j \in 1..(i - 1) : s[j] # ch) - 1
  ELSE -1

\* a value kept with its quotes
StripNothing(val) == val

\* "strip matching quotes"
StripQuotes(val) ==
  IF /\ Len(val) >= 2
     /\ \/ (val[1] = "\"" /\ val[Len(val)] = "\"")
        \/ (val[1] = "'" /\ val[Len(val)] = "'")
  THEN SubSeq(val, 2, Len(val) - 1)
  ELSE val

\* m[key] = val
MapPut(m, key, val) ==
  [k \in DOMAIN m \cup {key} |-> IF k = key THEN val ELSE m[k]]

\* the body of the loop over the tokens: p is the pair of maps so far
ParseToken(p, tok) ==
  IF Len(tok) < 3 \/ tok[1] # "-" THEN p
  ELSE LET prefix == tok[2]
           rest == SubSeq(tok, 3, Len(tok))
           eq == IndexByte(rest, "=")
       IN IF eq <= 0 \/ eq = Len(rest) - 1 THEN p
          ELSE LET key == SubSeq(rest, 1, eq)
                   val == StripQuotes(SubSeq(rest, eq + 2, Len(rest)))
               IN IF prefix = "f"
                  THEN [p EXCEPT !.fopts = MapPut(@, key, val)]
                  ELSE IF prefix = "c"
                  THEN [p EXCEPT !.copts = MapPut(@, key, val)]
                  ELSE p

RECURSIVE ParseTokens(_, _)
ParseTokens(p, toks) ==
  IF toks = <<>> THEN p
  ELSE ParseTokens(ParseToken(p, Head(toks)), Tail(toks))

parseFFmpegParams(s) ==
  ParseTokens([fopts |-> EmptyMap, copts |-> EmptyMap], Fields(s))

\* the user types one more token into the field, white space around it
ParamsType ==
  /\ ~prs.parsed
  /\ Len(prs.toks) < MaxToks
  /\ \E tok \in ParamTokens, b \in Blanks, lead \in {<<>>, <<" ">>} :
       prs' = [prs EXCEPT !.toks = Append(@, tok),
                          !.s = IF @ = <<>> THEN lead \o tok ELSE @ \o b \o tok]
  /\ UNCHANGED restParams

\* the user pastes the example into the empty field
ParamsExample ==
  /\ ~prs.parsed
  /\ prs.s = <<>>
  /\ prs' = [prs EXCEPT !.s = ExampleParams, !.toks = Fields(ExampleParams)]
  /\ UNCHANGED restParams

\* applyFmtParams and applyDecParams: parseFFmpegParams(w.cfg.FFmpegParams)
ParamsParse ==
  /\ ~prs.parsed
  /\ LET p == parseFFmpegParams(prs.s)
     IN prs' = [prs EXCEPT !.parsed = TRUE, !.fopts = p.fopts, !.copts = p.copts]
  /\ UNCHANGED restParams

NextParams == ParamsType \/ ParamsExample \/ ParamsParse
SpecParams == Init /\ [][NextParams]_vars

\* ---------------------------------------------------------- SpecPath
\* recordingFilePath: the per-camera directory of a recording.
restPath == <<lifeVars, boVars, bufVars, stallVars, recVars, metVars, estVars, prsVars,
  trayVars, pauseVars, attVars, cfgVars, brVars, voVars, scVars, rsVars, rfVars>>

\* the characters of a camera's name and the URLs a camera can have
NameChars == {"a", " ", ".", "/", "\\", ":", "*", "?", "\"", "<", ">", "|"}
CamURLs == {<<>>, <<" ">>, <<"r", ":", "/", "h">>}

\* the characters of the replacer, the pipe left out
HostileNoPipe == {"/", "\\", ":", "*", "?", "\"", "<", ">"}

\* the old strings of strings.NewReplacer
Hostile == {"/", "\\", ":", "*", "?", "\"", "<", ">", "|"}

\* strings.TrimSpace
RECURSIVE TrimLeft(_)
TrimLeft(s) == IF s # <<>> /\ IsSpace(Head(s)) THEN TrimLeft(Tail(s)) ELSE s
RECURSIVE TrimRight(_)
TrimRight(s) ==
  IF s # <<>> /\ IsSpace(s[Len(s)]) THEN TrimRight(SubSeq(s, 1, Len(s) - 1)) ELSE s
TrimSpace(s) == TrimRight(TrimLeft(s))

\* sanitizeFSComponent
sanitizeFSComponent(s) ==
  LET t == TrimSpace(s) IN
  IF t = <<>> THEN <<"c", "a", "m", "e", "r", "a">>
  ELSE [i \in 1..Len(t) |-> IF t[i] \in Hostile THEN "_" ELSE t[i]]

\* the home directory (env.homeDir or os.UserHomeDir) and the recordings
\* root below it, as path elements
HomeDir == <<"h", "o", "m", "e">>
RecordingsRoot == <<"A", "n", "o", "t", "h", "e", "r", "R", "T", "S", "P", "-",
                    "R", "e", "c", "o", "r", "d", "i", "n", "g", "s">>

\* filepath.Clean on the elements of a rooted path: an empty element and
\* "." are dropped, ".." drops the element before it (none at the top)
RECURSIVE CleanElems(_, _)
CleanElems(done, todo) ==
  IF todo = <<>> THEN done
  ELSE LET e == Head(todo) IN
    IF e = <<>> \/ e = <<".">> THEN CleanElems(done, Tail(todo))
    ELSE IF e = <<".", ".">>
    THEN CleanElems(IF done = <<>> THEN done
                    ELSE SubSeq(done, 1, Len(done) - 1), Tail(todo))
    ELSE CleanElems(Append(done, e), Tail(todo))

\* filepath.Join(base, "AnotherRTSP-Recordings", camName): camName holds no
\* separator when it comes from sanitizeFSComponent
JoinDir(camName) == CleanElems(<<>>, <<HomeDir, RecordingsRoot, camName>>)

\* settings: the user types a character of the camera's name
NameType ==
  /\ ~san.built
  /\ Len(san.name) < MaxName
  /\ \E ch \in NameChars : san' = [san EXCEPT !.name = Append(@, ch)]
  /\ UNCHANGED restPath

\* settings: the camera's URL
URLSet ==
  /\ ~san.built
  /\ \E u \in CamURLs \ {san.url} : san' = [san EXCEPT !.url = u]
  /\ UNCHANGED restPath

\* recordingFilePath: camName := w.cfg.Name; if camName == "" { camName =
\* w.cfg.URL }; camName = sanitizeFSComponent(camName); dir :=
\* filepath.Join(base, "AnotherRTSP-Recordings", camName); the file is
\* filepath.Join(dir, fname), fname a time stamp and ".mp4"
RecordingFilePath ==
  /\ ~san.built
  /\ LET camName == sanitizeFSComponent(
                      IF san.name = <<>> THEN san.url ELSE san.name)
     IN san' = [san EXCEPT !.built = TRUE, !.camName = camName,
                           !.dir = JoinDir(camName)]
  /\ UNCHANGED restPath

NextPath == NameType \/ URLSet \/ RecordingFilePath
SpecPath == Init /\ [][NextPath]_vars

\* ---------------------------------------------------------- SpecTray
\* The window registry (wins), the tray controller and the camera list of
\* the settings dialog, all on the UI thread.
restTray == <<lifeVars, boVars, bufVars, stallVars, recVars, metVars, estVars,
              prsVars, sanVars, pauseVars, attVars, cfgVars, brVars, voVars, scVars, rsVars, rfVars>>

\* the names the user gives the cameras made in the dialog, each camera a
\* name of its own, in this order
NewNames == {13, 14}

\* a camera made in the dialog: editCameraDialog sets no ID, Disabled stays
\* false; its name
NewCamera(n) == [id |-> 0, name |-> n, disabled |-> FALSE]

\* the formations: the camera keys (ID, or name without one) a formation lists
Formations == SUBSET {1, 2, 13}

\* append(s[:i-1], s[i:]...)
RemoveAt(s, i) == SubSeq(s, 1, i - 1) \o SubSeq(s, i + 1, Len(s))

\* ensureWinsLen
EnsureWinsLen(ws, n) ==
  IF Len(ws) < n THEN ws \o [k \in 1..(n - Len(ws)) |-> 0]
  ELSE SubSeq(ws, 1, n)

\* rebuild: "Enabled = has a live window AND not marked disabled"
RebuiltActions(cs, ws) ==
  [i \in 1..Len(cs) |-> ~cs[i].disabled /\ ws[i] # 0]

\* newCamWindow(cfg, idx): the window it makes
NewWindow(c, i) == [cam |-> c.id, name |-> c.name, idx |-> i, open |-> TRUE]

\* w.Close() and w.win.Close() on the windows ws
Closed(windows, ws) ==
  [k \in 1..Len(windows) |->
     IF k \in ws THEN [windows[k] EXCEPT !.open = FALSE] ELSE windows[k]]

\* a tray item that keeps its check state
SetCheckedNever(acts, i, b) == acts

\* SetChecked on t.actions[i], if there is such an item
SetChecked(acts, i, b) ==
  IF i <= Len(acts) THEN [acts EXCEPT ![i] = b] ELSE acts

\* the UI thread takes the next user event: nothing posted is waiting
UIReady == posted = <<>> /\ ~trayPanic

\* onActionToggled(idx, checked, act): the user clicks the tray item
TrayToggle ==
  /\ UIReady
  /\ \E i \in 1..Len(actions) :
       /\ i <= Len(cams)
       /\ LET ws == EnsureWinsLen(wins, Len(cams)) IN
          IF actions[i]
          THEN \* unchecked by the click
               /\ cams' = [cams EXCEPT ![i].disabled = TRUE]
               /\ actions' = [actions EXCEPT ![i] = FALSE]
               /\ wins' = [ws EXCEPT ![i] = 0]
               /\ cw' = Closed(cw, {ws[i]})
          ELSE \* checked by the click
               /\ cams' = [cams EXCEPT ![i].disabled = FALSE]
               /\ actions' = [actions EXCEPT ![i] = TRUE]
               /\ IF ws[i] = 0
                  THEN /\ Len(cw) < MaxWins
                       /\ cw' = Append(cw, NewWindow(cams[i], i))
                       /\ wins' = [ws EXCEPT ![i] = Len(cw) + 1]
                  ELSE /\ cw' = cw
                       /\ wins' = ws
  /\ edit' = NoEdit
  /\ UNCHANGED <<restTray, dcams, posted, trayPanic>>

\* the user closes a camera window: the close event runs w.Close() and posts
\* onClosed(w.idx)
UserClose ==
  /\ UIReady
  /\ \E k \in 1..Len(cw) :
       /\ cw[k].open
       /\ cw' = Closed(cw, {k})
       /\ posted' = Append(posted, cw[k].idx)
  /\ edit' = NoEdit
  /\ UNCHANGED <<restTray, cams, dcams, wins, actions, trayPanic>>

\* WindowWasClosed(idx), run from the event loop
WindowWasClosed ==
  /\ posted # <<>>
  /\ ~trayPanic
  /\ posted' = Tail(posted)
  /\ LET idx == Head(posted) IN
     IF idx > Len(cams)
     THEN UNCHANGED <<cams, wins, actions>>
     ELSE /\ wins' = [EnsureWinsLen(wins, Len(cams)) EXCEPT ![idx] = 0]
          /\ cams' = [cams EXCEPT ![idx].disabled = TRUE]
          /\ actions' = SetChecked(actions, idx, FALSE)
  /\ edit' = NoEdit
  /\ UNCHANGED <<restTray, dcams, cw, trayPanic>>

\* the key applyFormation looks a slot's camera up by
FormationKey(c) == IF c.id = 0 THEN c.name ELSE c.id

\* applyFormation, step 1: the slots whose windows it closes
FormationCloses(f, ws) ==
  {i \in 1..Len(ws) : ws[i] # 0 /\ FormationKey(cams[i]) \notin f}

\* applyFormation, step 2: the cameras it turns on, found by ID
FormationOpens(f) ==
  {i \in 1..Len(cams) :
     /\ cams[i].id \in f
     /\ \A j \in 1..(i - 1) : cams[j].id # cams[i].id}

\* the new windows of step 2, in the order of the slots
RECURSIVE FormationWindows(_, _, _)
FormationWindows(slots, windows, ws) ==
  IF slots = {} THEN [cw |-> windows, wins |-> ws]
  ELSE LET i == CHOOSE i \in slots : \A j \in slots : i <= j IN
       FormationWindows(slots \ {i},
                        Append(windows, NewWindow(cams[i], i)),
                        [ws EXCEPT ![i] = Len(windows) + 1])

\* applyFormation(f)
FormationApply ==
  /\ UIReady
  /\ \E f \in Formations :
       LET ws0 == EnsureWinsLen(wins, Len(cams))
           off == FormationCloses(f, ws0)
           on == FormationOpens(f)
           ws1 == [i \in 1..Len(ws0) |-> IF i \in off THEN 0 ELSE ws0[i]]
           made == FormationWindows({i \in on : ws1[i] = 0},
                                    Closed(cw, {ws0[i] : i \in off}), ws1)
       IN /\ Len(made.cw) <= MaxWins
          /\ cw' = made.cw
          /\ wins' = made.wins
          /\ cams' = [i \in 1..Len(cams) |->
                        [cams[i] EXCEPT !.disabled =
                           IF i \in on THEN FALSE
                           ELSE IF i \in off THEN TRUE ELSE @]]
          /\ actions' = [i \in 1..Len(actions) |->
                           IF i \in on THEN TRUE
                           ELSE IF i \in off THEN FALSE ELSE actions[i]]
  /\ edit' = NoEdit
  /\ UNCHANGED <<restTray, dcams, posted, trayPanic>>

\* SettingsDialog.onAdd
SettingsAdd ==
  /\ UIReady
  /\ Len(dcams) < MaxCams
  /\ Len(cw) < MaxWins
  /\ \E n \in NewNames :
       /\ \A i \in 1..Len(cw) : cw[i].name # n
       /\ \A o \in NewNames : o < n => \E i \in 1..Len(cw) : cw[i].name = o
       /\ LET c == NewCamera(n)
              cs == Append(cams, c)
              newIdx == Len(dcams) + 1
              ws0 == IF Len(wins) < Len(cs)
                     THEN wins \o [k \in 1..(Len(cs) - Len(wins)) |-> 0]
                     ELSE wins
              ws == [ws0 EXCEPT ![newIdx] = Len(cw) + 1]
          IN /\ dcams' = Append(dcams, c)
             /\ cams' = cs
             /\ cw' = Append(cw, NewWindow(c, newIdx))
             /\ wins' = EnsureWinsLen(ws, Len(cs))
             /\ actions' = RebuiltActions(cs, wins')
  /\ edit' = NoEdit
  /\ UNCHANGED <<restTray, posted, trayPanic>>

\* the windows in the slots of wins
InRegistry(ws) == {ws[i] : i \in {j \in 1..Len(ws) : ws[j] # 0}}

\* onEdit: for _, w := range wins { if w.cfg.ID == id { w.RestartWith } }
RestartTargets(ws, windows, id) ==
  {k \in InRegistry(ws) : windows[k].cam = id}

\* SettingsDialog.onEdit: the row into globalConfig, the windows of the ID
\* restarted, tray.cfg.Cameras = d.cams, rebuild
SettingsEdit ==
  /\ UIReady
  /\ \E row \in 1..Len(dcams) :
       LET edited == dcams[row]
           hit == IF edited.disabled THEN {}
                  ELSE RestartTargets(wins, cw, edited.id)
       IN /\ edit' = [row |-> row, name |-> edited.name,
                      restarted |-> {[win |-> k, name |-> cw[k].name] :
                                       k \in {h \in hit : cw[h].open}},
                      own |-> {k \in InRegistry(wins) :
                                 cw[k].open /\ cw[k].name = edited.name}]
          /\ cw' = [k \in 1..Len(cw) |->
                      IF k \in hit THEN [cw[k] EXCEPT !.name = edited.name]
                      ELSE cw[k]]
          /\ cams' = dcams
          /\ wins' = EnsureWinsLen(wins, Len(dcams))
          /\ actions' = RebuiltActions(cams', wins')
  /\ UNCHANGED <<restTray, dcams, posted, trayPanic>>

\* SettingsDialog.onRemove, confirmed with Yes
SettingsRemove ==
  /\ UIReady
  /\ \E sel \in 1..Len(dcams) :
       LET id == dcams[sel].id
           ds == RemoveAt(dcams, sel)
           \* if row >= len(d.cams) { row = len(d.cams) - 1 }
           row == IF sel > Len(ds) THEN Len(ds) ELSE sel
           hit == {wins[i] : i \in {j \in 1..Len(wins) :
                                      wins[j] # 0 /\ cw[wins[j]].cam = id}}
           RECURSIVE Posts(_, _)
           Posts(q, i) ==
             IF i > Len(wins) THEN q
             ELSE Posts(IF wins[i] \in hit /\ cw[wins[i]].open
                        THEN Append(q, cw[wins[i]].idx) ELSE q, i + 1)
       IN /\ dcams' = ds
          /\ IF row = 0
             THEN \* globalConfig.Cameras[:row] with row = -1
                  /\ trayPanic' = TRUE
                  /\ UNCHANGED <<cams, wins, cw, actions, posted>>
             ELSE /\ trayPanic' = FALSE
                  /\ cw' = Closed(cw, hit)
                  /\ posted' = Posts(posted, 1)
                  /\ cams' = ds
                  /\ wins' = EnsureWinsLen(wins, Len(ds))
                  /\ actions' = RebuiltActions(ds, wins')
  /\ edit' = NoEdit
  /\ UNCHANGED restTray

NextTray ==
  \/ TrayToggle \/ UserClose \/ WindowWasClosed \/ FormationApply
  \/ SettingsAdd \/ SettingsEdit \/ SettingsRemove
SpecTray == Init /\ [][NextTray]_vars

\* --------------------------------------------------------- SpecPause
\* The decode loop of a freshly opened session failing and retrying, its
\* pause measured on the clock.
restPause == <<bufVars, stallVars, recVars, metVars, estVars, prsVars,
               sanVars, trayVars, attVars, cfgVars, brVars, voVars, scVars, rsVars, rfVars>>

\* the pause: select { case <-w.stop: ...; case <-time.After(1s): } arms the
\* timer
PauseArm ==
  /\ Running
  /\ loops[1].pc = "dl_pause"
  /\ loops' = [loops EXCEPT ![1].pc = "dl_select", ![1].stop = w_stop]
  /\ timer' = now + PauseLength
  /\ UNCHANGED <<w_stop, w_done, closing, wantPlaying, closedCh, nextCh, panicked,
                 thr, nLoops, nRestarts, nFails, boVars, restPause>>

\* the timer has fired: next iteration
PauseElapsed ==
  /\ Running
  /\ loops[1].pc = "dl_select"
  /\ ~IsClosed(loops[1].stop)
  /\ now >= timer
  /\ loops' = [loops EXCEPT ![1].pc = "dl_top", ![1].stop = 0]
  /\ timer' = 0
  /\ UNCHANGED <<w_stop, w_done, closing, wantPlaying, closedCh, nextCh, panicked,
                 thr, nLoops, nRestarts, nFails, boVars, restPause>>

NextPause ==
  \/ LoopStart(1) \/ LoopTop(1) \/ AttemptErrorRun \/ EndOfStream(1)
  \/ PauseArm \/ PauseElapsed
  \/ Tick

SpecPause == Init /\ [][NextPause]_vars

\* ------------------------------------------------------- SpecAttempt
\* One decode loop, its attempts statement by statement, against StopCamera,
\* ToggleRecording and the clock.
restAttempt == <<lifeVars, bufVars, stallVars, metVars, estVars, prsVars,
                 sanVars, trayVars, pauseVars, recLog, cfgVars, brVars, voVars, scVars, rsVars, rfVars>>

\* the input's streams: audio, video, data
AudioStream == 0
VideoStream == 1
DataStream == 2
InputStreams == {AudioStream, VideoStream, DataStream}

\* w.recStreamIx as startRecorder fills it: the video streams, numbered as
\* oc.NewStream makes them
StreamMap == (VideoStream :> 0)

\* what startRecorder meets in an attempt: the output path fails, the
\* header fails, or the recorder opens; the AAC pipeline is set up when the
\* input has a decoded audio stream
AttemptFailures == {"none", "path", "header"}
AttemptAudio(audio) == IF audio THEN "ok" ELSE "noaudio"

\* what decoding a video packet meets: SendPacket fails, or ReceiveFrame
\* returns frames, each of which toBGRA converts or not, until it answers
\* EAGAIN/EOF or fails
FrameRuns == UNION {[1..k -> {"frame", "converr"}] : k \in 0..MaxFrames}
VideoOutcomes ==
  {[end |-> "senderr", frames |-> <<>>]}
    \cup {[end |-> e, frames |-> f] : e \in {"again", "harderr"}, f \in FrameRuns}

\* the frames of a run that met r
CountOf(f, r) == Cardinality({i \in 1..Len(f) : f[i] = r})

\* the fields of the packet in hand, as a new iteration finds them
FreshPacket(a) ==
  [a EXCEPT !.si = -1, !.seenRec = FALSE, !.startFail = "none",
            !.wrote = 0, !.out = -1, !.werr = FALSE, !.showDrops = FALSE,
            !.outcome = "none", !.dDrops = 0, !.dErrs = 0, !.put = 0,
            !.conv = 0, !.flushed = <<>>]

\* a packet loop that never looks at the stop channel
PollNever(stopped) == "read"

\* packet loop top: select { case <-w.stop: return nil; default: }
PollTarget(stopped) == IF stopped THEN "closerec" ELSE "read"

\* decodeLoop top: select { case <-w.stop: return; default: }
AttLoopTop ==
  /\ at.pc = "dl_top"
  /\ IF at.stop
     THEN at' = [at EXCEPT !.pc = "dl_exit"]
     ELSE /\ at.n < MaxAttempts
          /\ at' = [FreshPacket(at) EXCEPT !.pc = "setup", !.n = @ + 1,
                                           !.fc = TRUE, !.ret = "none"]
  /\ UNCHANGED <<restAttempt, rec, recording, boVars>>

\* openAndDecode up to the packet loop: a failure returns the error and the
\* deferred frees run; else the decoders are open, defer closeRecorder() is
\* in place and lastProgress := time.Now(). audio is aCtx != nil &&
\* !w.cfg.Mute
AttSetup ==
  /\ at.pc = "setup"
  /\ \/ at' = [at EXCEPT !.pc = "free", !.ret = "error"]
     \/ \E a \in BOOLEAN :
          at' = [at EXCEPT !.pc = "top", !.audio = a, !.lastProgress = now]
  /\ UNCHANGED <<restAttempt, rec, recording, boVars>>

\* the packet loop's stop check
AttPoll ==
  /\ at.pc = "top"
  /\ at' = [FreshPacket(at) EXCEPT
              !.pc = PollTarget(at.stop),
              !.ret = IF PollTarget(at.stop) = "closerec" THEN "nil" ELSE @]
  /\ UNCHANGED <<restAttempt, rec, recording, boVars>>

\* fc.ReadFrame(pkt) fails: the stall check, else sleep 10 ms and continue
AttReadFail ==
  /\ at.pc = "read"
  /\ at' = IF Stalled(at.lastProgress)
           THEN [at EXCEPT !.pc = "closerec", !.ret = "error"]
           ELSE [at EXCEPT !.pc = "top"]
  /\ UNCHANGED <<restAttempt, rec, recording, boVars>>

\* a flush that drops what the decoder still holds
FlushNothing(f) == 0

\* the flush: every frame toBGRA converts is put
FlushPuts(f) == CountOf(f, "frame")

\* fc.ReadFrame(pkt) returns io.EOF: break; SendPacket(nil), then every
\* frame ReceiveFrame returns goes through toBGRA and, converted, buf.put;
\* return nil
AttReadEOF ==
  /\ at.pc = "read"
  /\ \E f \in FrameRuns :
       at' = [at EXCEPT !.pc = "closerec", !.ret = "nil", !.outcome = "flush",
                        !.flushed = f, !.put = FlushPuts(f),
                        !.conv = CountOf(f, "converr")]
  /\ UNCHANGED <<restAttempt, rec, recording, boVars>>

\* fc.ReadFrame(pkt) returns a packet of stream si
AttRead ==
  /\ at.pc = "read"
  /\ at.reads < MaxReads
  /\ \E si \in InputStreams :
       at' = [at EXCEPT !.pc = "reconcile", !.si = si, !.reads = @ + 1]
  /\ UNCHANGED <<restAttempt, rec, recording, boVars>>

\* "Check hotkey state and start/stop recording as needed"
AttReconcile ==
  /\ at.pc = "reconcile"
  /\ IF recording
     THEN IF RecorderOpen(rec)
          THEN /\ rec' = rec
               /\ at' = [at EXCEPT !.pc = "mux", !.seenRec = TRUE]
          ELSE \E fail \in AttemptFailures :
                 /\ rec' = StartRecorder(rec, fail, AttemptAudio(at.audio))
                 /\ at' = [at EXCEPT !.pc = "mux", !.seenRec = TRUE,
                                     !.startFail = fail,
                                     !.recBy = IF fail = "none" THEN at.n ELSE 0]
     ELSE /\ rec' = CloseRecorder(rec)
          /\ at' = [at EXCEPT !.pc = "mux", !.seenRec = FALSE, !.recBy = 0]
  /\ UNCHANGED <<restAttempt, recording, boVars>>

\* the copy path writing everything it is handed
MuxAll(r, si) == RecorderOpen(r)

\* if w.recCtx != nil { if outIdx, ok := w.recStreamIx[si]; ok {
MuxTracked(r, si) == RecorderOpen(r) /\ r.recStreamIx /\ si \in DOMAIN StreamMap

\* "If recorder is active, clone this packet and mux it": the write error is
\* logged
AttMux ==
  /\ at.pc = "mux"
  /\ IF MuxTracked(rec, at.si)
     THEN \E e \in BOOLEAN :
            at' = [at EXCEPT !.pc = "decode", !.wrote = @ + 1, !.werr = e,
                     !.out = IF at.si \in DOMAIN StreamMap
                             THEN StreamMap[at.si] ELSE at.si]
     ELSE at' = [at EXCEPT !.pc = "decode"]
  /\ UNCHANGED <<restAttempt, rec, recording, boVars>>

\* a decoder that counts its errors whatever the configuration
CountsAlways(showDrops) == TRUE

\* if globalConfig.ShowDrops { decodeErrs++, framesDropped++ }
CountsErrors(showDrops) == showDrops

\* the audio path (decode, play, encode; pkt.Unref(); continue) and the video
\* path up to pkt.Unref(); sd is globalConfig.ShowDrops as this packet reads
\* it
AttDecode ==
  /\ at.pc = "decode"
  /\ IF at.audio /\ at.si = AudioStream
     THEN at' = [at EXCEPT !.pc = "top", !.outcome = "audio"]
     ELSE IF at.si = VideoStream
     THEN \E o \in VideoOutcomes, sd \in BOOLEAN :
            at' = [at EXCEPT
                     !.pc = "watch", !.outcome = o.end, !.showDrops = sd,
                     !.dErrs = IF o.end = "harderr" /\ CountsErrors(sd)
                               THEN 1 ELSE 0,
                     !.dDrops = IF o.end = "harderr" /\ CountsErrors(sd)
                                THEN 1 ELSE 0,
                     !.put = CountOf(o.frames, "frame"),
                     !.conv = CountOf(o.frames, "converr"),
                     !.lastProgress = IF CountOf(o.frames, "frame") > 0
                                      THEN now ELSE @]
     ELSE at' = [at EXCEPT !.pc = "watch", !.outcome = "skipped"]
  /\ UNCHANGED <<restAttempt, rec, recording, boVars>>

\* if time.Since(lastProgress) > stallCutoff { return the stall error }
AttWatch ==
  /\ at.pc = "watch"
  /\ at' = IF Stalled(at.lastProgress)
           THEN [at EXCEPT !.pc = "closerec", !.ret = "error"]
           ELSE [at EXCEPT !.pc = "top"]
  /\ UNCHANGED <<restAttempt, rec, recording, boVars>>

\* an attempt that registers no deferred closeRecorder()
DeferredSkipped(r) == r

\* what the deferred closeRecorder() does to the recorder
DeferredClose(r) == CloseRecorder(r)

\* openAndDecode returns: the deferred closeRecorder() runs (after the frees
\* of vf, pkt and the scaler)
AttCloseRecorder ==
  /\ at.pc = "closerec"
  /\ rec' = DeferredClose(rec)
  /\ at' = [at EXCEPT !.pc = "free",
                      !.recBy = IF RecorderOpen(rec') THEN @ ELSE 0]
  /\ UNCHANGED <<restAttempt, recording, boVars>>

\* the deferred frees of the decoders and fc.Free() run; back in decodeLoop,
\* if err != nil { w.setReconnectSoon() }
AttFree ==
  /\ at.pc = "free"
  /\ at' = [at EXCEPT !.pc = "dl_pause", !.fc = FALSE, !.audio = FALSE,
                      !.lastProgress = 0]
  /\ IF at.ret = "error"
     THEN /\ nextTry' = now + ReconnectDelay(backoff)
          /\ backoff' = ReconnectBackoff(backoff)
     ELSE UNCHANGED <<backoff, nextTry>>
  /\ UNCHANGED <<restAttempt, rec, recording, now>>

\* the pause: select { case <-w.stop: return; case <-time.After(1s): }
AttPause ==
  /\ at.pc = "dl_pause"
  /\ at' = [at EXCEPT !.pc = IF at.stop THEN "dl_exit" ELSE "dl_top"]
  /\ UNCHANGED <<restAttempt, rec, recording, boVars>>

\* decodeLoop returns: the deferred close(w.done) runs
AttExit ==
  /\ at.pc = "dl_exit"
  /\ at' = [at EXCEPT !.pc = "exited", !.done = @ + 1]
  /\ UNCHANGED <<restAttempt, rec, recording, boVars>>

\* StopCamera on the UI thread: close(w.stop) unless it is closed
AttStopCamera ==
  /\ ~at.stop
  /\ at' = [at EXCEPT !.stop = TRUE]
  /\ UNCHANGED <<restAttempt, rec, recording, boVars>>

\* five seconds pass while the attempt is in its packet loop, until the
\* clock is past the cutoff
AttTick ==
  /\ at.pc \in {"top", "read", "reconcile", "mux", "decode", "watch"}
  /\ now <= StallCutoff
  /\ now' = now + 5000
  /\ UNCHANGED <<restAttempt, rec, recording, backoff, nextTry, at>>

NextAttempt ==
  \/ AttLoopTop \/ AttSetup \/ AttPoll \/ AttReadFail \/ AttReadEOF \/ AttRead
  \/ AttReconcile \/ AttMux \/ AttDecode \/ AttWatch
  \/ AttCloseRecorder \/ AttFree \/ AttPause \/ AttExit
  \/ AttStopCamera \/ ToggleRecording \/ AttTick

SpecAttempt == Init /\ [][NextAttempt]_vars

\* -------------------------------------------------------- SpecConfig
\* RestartWith against the decode loops' reads of w.cfg.

\* the attempt of loop l reads w.cfg: RTSPTCP, Probesize, FFmpegParams, URL,
\* Threads, HwAccel during setup, Mute at every packet, Name in its logs
AttemptReadsConfig(l) ==
  /\ Running
  /\ loops[l].pc = "attempt"
  /\ cfgSeen[l] # cfg
  /\ cfgSeen' = [cfgSeen EXCEPT ![l] = cfg]
  /\ UNCHANGED <<lifeVars, boVars, bufVars, restConfig, cfg>>

NextConfig ==
  \/ RestartWith
  \/ \E t \in Threads : RestartStep(t)
  \/ \E l \in LoopIds : LoopStep(l)
  \/ \E l \in LoopIds : AttemptReadsConfig(l)

SpecConfig == Init /\ [][NextConfig]_vars

\* ------------------------------------------------------- SpecBitrate
\* The packet loop's accumulation of bytesVideo against the metrics timer.
restBitrate == <<lifeVars, boVars, bufVars, stallVars, recVars, estVars, prsVars,
                 sanVars, trayVars, pauseVars, attVars, cfgVars, voVars, scVars, rsVars, rfVars>>

\* pkt.Size() of the packets read
PacketSizes == {500, 1500}

\* loadConfig: the overlay flags of the settings
LoadOverlays ==
  /\ ~br.loaded
  /\ \E sb \in BOOLEAN, sd \in BOOLEAN :
       br' = [br EXCEPT !.loaded = TRUE, !.showBitrate = sb, !.showDrops = sd]
  /\ UNCHANGED <<restBitrate, met>>

\* a video packet: if globalConfig.ShowDrops { bytesVideo += pkt.Size() }
BitrateVideoPacket ==
  /\ br.loaded
  /\ br.pkts < MaxBrPkts
  /\ \E size \in PacketSizes :
       br' = [br EXCEPT !.pkts = @ + 1, !.read = @ + size,
                        !.bytesVideo = IF br.showDrops THEN @ + size ELSE @]
  /\ UNCHANGED <<restBitrate, met>>

\* an audio packet: the audio path ends with continue
BitrateAudioPacket ==
  /\ br.loaded
  /\ br.pkts < MaxBrPkts
  /\ br' = [br EXCEPT !.pkts = @ + 1]
  /\ UNCHANGED <<restBitrate, met>>

\* a tick of the 1 s timer reads bytesVideo
BitrateTick ==
  /\ br.loaded
  /\ br.ticks < MaxBrTicks
  /\ \E dt \in TickGaps :
       met' = Sample(met, 0, br.bytesVideo, 0, 0, dt)
  /\ br' = [br EXCEPT !.interval = br.read, !.read = 0, !.pkts = 0,
                      !.ticks = @ + 1]
  /\ UNCHANGED restBitrate

NextBitrate ==
  LoadOverlays \/ BitrateVideoPacket \/ BitrateAudioPacket \/ BitrateTick

SpecBitrate == Init /\ [][NextBitrate]_vars

\* ------------------------------------------------------- SpecDecOpts
\* openAndDecode building the option dictionary the video decoder is opened
\* with.
restDecOpts == <<lifeVars, boVars, bufVars, stallVars, recVars, metVars, estVars,
                 prsVars, sanVars, trayVars, pauseVars, attVars, cfgVars, brVars, scVars, rsVars, rfVars>>

OptHwaccel == <<"h", "w", "a", "c", "c", "e", "l">>
OptErrDetect == <<"e", "r", "r", "_", "d", "e", "t", "e", "c", "t">>
OptFlags2 == <<"f", "l", "a", "g", "s", "2">>
OptSkipFrame == <<"s", "k", "i", "p", "_", "f", "r", "a", "m", "e">>
ValNone == <<"n", "o", "n", "e">>

\* w.cfg.HwAccel: empty, or an entry of the settings dialog's list
HwHints ==
  {<<>>, ValNone, <<"v", "a", "a", "p", "i">>, <<"n", "v", "d", "e", "c">>,
   <<"v", "i", "d", "e", "o", "t", "o", "o", "l", "b", "o", "x">>}

\* w.cfg.FFmpegParams
DecParams ==
  {<<>>,
   <<"-", "c", "t", "h", "r", "e", "a", "d", "s", "=", "2">>,
   <<"-", "c", "h", "w", "a", "c", "c", "e", "l", "=", "c", "u", "d", "a">>,
   <<"-", "f", "h", "w", "a", "c", "c", "e", "l", "=", "c", "u", "d", "a">>,
   <<"-", "c", "h", "w", "a", "c", "c", "e", "l", "=", "n", "o", "n", "e">>,
   <<"-", "c", "s", "k", "i", "p", "_", "f", "r", "a", "m", "e", "=", "n", "o", "k", "e", "y">>,
   <<"-", "f", "s", "t", "i", "m", "e", "o", "u", "t", "=", "5", " ", "-", "c", "e", "r", "r", "_", "d", "e", "t", "e", "c", "t", "=", "i", "g", "n", "o", "r", "e">>}

\* a hint passed on as it is, empty or not
HwaccelAsGiven(hint) == hint

\* hwaccel := w.cfg.HwAccel; if hwaccel == "" { hwaccel = "none" }
HwaccelValue(hint) == IF hint = <<>> THEN ValNone ELSE hint

RECURSIVE SetAll(_, _, _)
\* for k, v := range copts { vopts.Set(k, v, 0) }
SetAll(d, copts, keys) ==
  IF keys = {} THEN d
  ELSE LET k == CHOOSE x \in keys : TRUE
       IN SetAll(MapPut(d, k, copts[k]), copts, keys \ {k})

\* applyDecParams
applyDecParams(params, vopts) ==
  IF params = <<>> THEN vopts
  ELSE LET copts == parseFFmpegParams(params).copts
       IN SetAll(vopts, copts, DOMAIN copts)

\* an attempt reaches "force software decode; avoid hardware frames" with
\* the camera's configuration; vopts := astiav.NewDictionary()
DecOptsNew ==
  /\ vo.pc = "idle"
  /\ \E h \in HwHints, p \in DecParams :
       vo' = [pc |-> "hwaccel", hint |-> h, params |-> p, opts |-> EmptyMap]
  /\ UNCHANGED restDecOpts

\* vopts.Set("hwaccel", hwaccel, 0)
DecOptsHwaccel ==
  /\ vo.pc = "hwaccel"
  /\ vo' = [vo EXCEPT !.pc = "defaults",
                      !.opts = MapPut(@, OptHwaccel, HwaccelValue(vo.hint))]
  /\ UNCHANGED restDecOpts

\* err_detect, flags2, skip_frame
DecOptsDefaults ==
  /\ vo.pc = "defaults"
  /\ vo' = [vo EXCEPT !.pc = "params",
              !.opts = MapPut(MapPut(MapPut(@, OptErrDetect, <<"c", "a", "r", "e", "f", "u", "l">>),
                                     OptFlags2, <<"+", "s", "h", "o", "w", "a", "l", "l">>),
                              OptSkipFrame, <<"d", "e", "f", "a", "u", "l", "t">>)]
  /\ UNCHANGED restDecOpts

\* applyDecParams(w.cfg.FFmpegParams, vopts)
DecOptsParams ==
  /\ vo.pc = "params"
  /\ vo' = [vo EXCEPT !.pc = "open", !.opts = applyDecParams(vo.params, @)]
  /\ UNCHANGED restDecOpts

\* vctx.Open(vdec, vopts); the attempt goes on and, in time, ends
DecOptsOpen ==
  /\ vo.pc = "open"
  /\ vo' = NoOptions
  /\ UNCHANGED restDecOpts

NextDecOpts ==
  DecOptsNew \/ DecOptsHwaccel \/ DecOptsDefaults \/ DecOptsParams \/ DecOptsOpen

SpecDecOpts == Init /\ [][NextDecOpts]_vars

\* -------------------------------------------------------- SpecScaler
\* bgraScaler: toBGRA on the frames an attempt decodes, and close.
restScaler == <<lifeVars, boVars, bufVars, stallVars, recVars, metVars, estVars,
                prsVars, sanVars, trayVars, pauseVars, attVars, cfgVars, brVars,
                voVars, rsVars, rfVars>>

\* the decoded frames: width, height, pixel format
SourceFrames == [w : {2, 4}, h : {2, 6}, pix : {"yuv420p", "nv12"}]

\* where a toBGRA call can fail
ScalerFailures == {"none", "create", "alloc", "scale", "size", "copy"}

\* a cache that looks at the geometry only
CacheHitBySize(s, f) == s.ssc # NoContext /\ f.w = s.srcW /\ f.h = s.srcH

\* s.ssc != nil && sw == s.srcW && sh == s.srcH && sp == s.srcPix
CacheHit(s, f) ==
  s.ssc # NoContext /\ f.w = s.srcW /\ f.h = s.srcH /\ f.pix = s.srcPix

\* bgraScaler.close
ScalerClosed(s) == [s EXCEPT !.dst = NoContext, !.ssc = NoContext]

\* bgraScaler.ensure: the scaler it leaves and the error it returns
ensure(s, f, fail) ==
  IF CacheHit(s, f) THEN [s |-> s, err |-> "none", rebuilt |-> FALSE]
  ELSE LET c == ScalerClosed(s) IN
    IF fail \in {"create", "alloc"}
    THEN [s |-> c, err |-> fail, rebuilt |-> TRUE]
    ELSE [s |-> [c EXCEPT !.ssc = [w |-> f.w, h |-> f.h, pix |-> f.pix],
                          !.dst = [w |-> f.w, h |-> f.h, pix |-> "bgra"],
                          !.srcW = f.w, !.srcH = f.h, !.srcPix = f.pix,
                          !.dstW = f.w, !.dstH = f.h],
          err |-> "none", rebuilt |-> TRUE]

\* bgraScaler.toBGRA: the scaler it leaves, the error and the size returned
toBGRA(s, f, fail) ==
  LET e == ensure(s, f, fail) IN
  IF e.err # "none"
  THEN [s |-> e.s, err |-> e.err, rebuilt |-> e.rebuilt, w |-> 0, h |-> 0]
  ELSE IF fail \in {"scale", "size", "copy"}
  THEN [s |-> e.s, err |-> fail, rebuilt |-> e.rebuilt, w |-> 0, h |-> 0]
  ELSE [s |-> e.s, err |-> "none", rebuilt |-> e.rebuilt,
        w |-> e.s.dstW, h |-> e.s.dstH]

\* the packet loop converts a decoded frame
ScalerConvert ==
  /\ \E f \in SourceFrames, fail \in ScalerFailures :
       LET r == toBGRA(sc, f, fail) IN
       sc' = [r.s EXCEPT !.calls = 1, !.frame = f, !.before = sc.ssc,
                         !.rebuilt = r.rebuilt, !.err = r.err,
                         !.outW = r.w, !.outH = r.h]
  /\ UNCHANGED restScaler

\* the attempt returns: defer scaler.close(); the next attempt makes a
\* new scaler
ScalerEnd ==
  /\ sc.calls > 0
  /\ sc' = NoScaler
  /\ UNCHANGED restScaler

NextScaler == ScalerConvert \/ ScalerEnd
SpecScaler == Init /\ [][NextScaler]_vars

\* ------------------------------------------------------ SpecReconnect
\* setReconnectSoon one statement at a time. backoff and nextTry are plain
\* fields that no lock guards; the decode loops write them in
\* setReconnectSoon, RestartWith and restartDecoder write backoff from the
\* caller's goroutine. A decode loop that is inside openAndDecode when
\* restartDecoder gives up waiting goes on, beside the new loop.
restReconnect == <<lifeVars, bufVars, stallVars, recVars, metVars, estVars,
                   prsVars, sanVars, trayVars, pauseVars, attVars, cfgVars,
                   brVars, voVars, scVars, rfVars>>

DecodeLoops == {1, 2}

RsGoto(l, pc) == rs' = [rs EXCEPT !.pc[l] = pc]

\* openAndDecode returns an error: decodeLoop calls setReconnectSoon
RsAttemptFails(l) ==
  /\ rs.pc[l] = "attempt"
  /\ RsGoto(l, "srs_zero")
  /\ UNCHANGED <<restReconnect, boVars>>

\* openAndDecode returns nil
RsAttemptEnds(l) ==
  /\ rs.pc[l] = "attempt"
  /\ RsGoto(l, "pause")
  /\ UNCHANGED <<restReconnect, boVars>>

\* if w.backoff == 0 { w.backoff = time.Second }
RsZero(l) ==
  /\ rs.pc[l] = "srs_zero"
  /\ backoff' = IF backoff = 0 THEN InitialBackoff ELSE backoff
  /\ RsGoto(l, "srs_cap")
  /\ UNCHANGED <<restReconnect, nextTry, now>>

\* if w.backoff > 30 s { w.backoff = 30 s }
RsCap(l) ==
  /\ rs.pc[l] = "srs_cap"
  /\ backoff' = IF backoff > MaxBackoff THEN MaxBackoff ELSE backoff
  /\ RsGoto(l, "srs_next")
  /\ UNCHANGED <<restReconnect, nextTry, now>>

\* w.nextTry = time.Now().Add(w.backoff)
RsSchedule(l) ==
  /\ rs.pc[l] = "srs_next"
  /\ nextTry' = now + backoff
  /\ RsGoto(l, "srs_test")
  /\ UNCHANGED <<restReconnect, backoff, now>>

\* if w.backoff < 30 s {
RsTest(l) ==
  /\ rs.pc[l] = "srs_test"
  /\ rs' = [rs EXCEPT !.pc[l] = IF backoff < MaxBackoff THEN "srs_double"
                                                        ELSE "pause",
                      !.b[l] = IF backoff < MaxBackoff THEN backoff ELSE 0]
  /\ UNCHANGED <<restReconnect, boVars>>

\* w.backoff *= 2: of the value the test has loaded, or of the field read
\* again
RsDouble(l) ==
  /\ rs.pc[l] = "srs_double"
  /\ \E v \in {rs.b[l], backoff} : backoff' = v * 2
  /\ rs' = [rs EXCEPT !.pc[l] = "srs_cap2", !.b[l] = 0]
  /\ UNCHANGED <<restReconnect, nextTry, now>>

\* if w.backoff > 30 s { w.backoff = 30 s }, return
RsCap2(l) ==
  /\ rs.pc[l] = "srs_cap2"
  /\ backoff' = IF backoff > MaxBackoff THEN MaxBackoff ELSE backoff
  /\ RsGoto(l, "pause")
  /\ UNCHANGED <<restReconnect, nextTry, now>>

\* select { case <-w.stop: return; case <-time.After(1 s): }, next iteration
RsPause(l) ==
  /\ rs.pc[l] = "pause"
  /\ RsGoto(l, "attempt")
  /\ UNCHANGED <<restReconnect, boVars>>

\* RestartWith (w.backoff = 250 ms) or StartCamera or a wake: restartDecoder
\* closes stop and waits for done. The one decode loop, between two
\* attempts, returns; inside an attempt it returns too, or the wait times
\* out after 2 s and the loop goes on.
RsRestartWait ==
  /\ rs.rd = "idle"
  /\ rs.pc[2] = "none"
  /\ rs.pc[1] \in {"attempt", "pause"}
  /\ \E with \in BOOLEAN, timeout \in BOOLEAN :
       /\ timeout => rs.pc[1] = "attempt"
       /\ backoff' = IF with THEN ShortBackoff ELSE backoff
       /\ rs' = [rs EXCEPT !.rd = "rd_backoff",
                           !.pc[1] = IF timeout THEN "attempt" ELSE "none"]
  /\ UNCHANGED <<restReconnect, nextTry, now>>

\* restartDecoder after its wait: the short cadence, new channels,
\* go w.decodeLoop()
RsRestartAdjust ==
  /\ rs.rd = "rd_backoff"
  /\ backoff' = RestartBackoff(backoff)
  /\ rs' = [rs EXCEPT !.rd = "idle",
                      !.pc = IF rs.pc[1] = "none"
                               THEN [rs.pc EXCEPT ![1] = "attempt"]
                               ELSE [rs.pc EXCEPT ![2] = "attempt"]]
  /\ UNCHANGED <<restReconnect, nextTry, now>>

NextReconnect ==
  \/ \E l \in DecodeLoops :
       \/ RsAttemptFails(l) \/ RsAttemptEnds(l)
       \/ RsZero(l) \/ RsCap(l) \/ RsSchedule(l) \/ RsTest(l)
       \/ RsDouble(l) \/ RsCap2(l)
       \/ RsPause(l)
  \/ RsRestartWait \/ RsRestartAdjust

SpecReconnect == Init /\ [][NextReconnect]_vars

\* ------------------------------------------------------- SpecRecFile
\* The output files of one camera's recordings. recordingFilePath names the
\* file after the time startRecorder is called at; the directory is the
\* camera's and the same for all of them. OpenIOContext opens the file for
\* writing, which creates or truncates it.
restRecFile == <<lifeVars, boVars, bufVars, stallVars, metVars, estVars,
                 prsVars, sanVars, trayVars, pauseVars, attVars, cfgVars,
                 brVars, voVars, scVars, rsVars>>

\* started.Format("2006-01-02_15-04-05") + ".mp4": the time of day in whole
\* seconds, the fraction dropped
FileName(ms) == ms \div 1000

\* half a second of wall clock passes
RfTick ==
  /\ rf.clock < MaxHalves * 500
  /\ rf' = [rf EXCEPT !.clock = @ + 500]
  /\ UNCHANGED <<restRecFile, recVars>>

\* the hotkey
RfToggle ==
  /\ ToggleRecording
  /\ UNCHANGED rf

\* the packet loop on a packet: startRecorder when recording is wanted and
\* no recorder is open (it may fail before it opens the file),
\* closeRecorder when a recorder is open and recording is not wanted
RfReconcile ==
  /\ rf.clock >= rf.resumeAt
  /\ IF recording /\ ~rf.open
     THEN /\ Len(rf.files) < MaxFiles
          /\ \E ok \in BOOLEAN :
               rf' = IF ok
                       THEN [rf EXCEPT !.open = TRUE,
                                       !.files = Append(@, FileName(rf.clock))]
                       ELSE rf
     ELSE IF ~recording /\ rf.open
     THEN rf' = [rf EXCEPT !.open = FALSE]
     ELSE UNCHANGED rf
  /\ UNCHANGED <<restRecFile, recVars>>

\* the attempt ends (read error, end of stream, stall): the deferred
\* closeRecorder runs; decodeLoop waits a second before the next attempt
RfAttemptEnds ==
  /\ rf.clock >= rf.resumeAt
  /\ rf' = [rf EXCEPT !.open = FALSE, !.resumeAt = rf.clock + PauseLength]
  /\ UNCHANGED <<restRecFile, recVars>>

NextRecFile == RfTick \/ RfToggle \/ RfReconcile \/ RfAttemptEnds
SpecRecFile == Init /\ [][NextRecFile]_vars

\* ========================================================== properties
InRestart(t) == thr[t].pc \in {"rd_check", "rd_close", "rd_arg", "rd_wait",
                               "rd_backoff", "rd_mkstop", "rd_mkdone"}

\* C1: a session never has two decode attempts (open format contexts) at
\* the same time, whatever the interleaving of RestartWith, StartCamera,
\* StopCamera and OnResumeFromSleep.
C1_SingleAttempt == Cardinality(ActiveLoops) <= 1

\* C2: raising the stop signal twice (StopCamera, Close, restartDecoder, on
\* the UI thread or on the goroutine of OnResumeFromSleep) never closes a
\* closed stop channel.
C2_StopNeverFaults == panicked # "stop"

\* C3: the sequence number get returns never decreases from one get to the
\* next; it is 0 before the first put and grows by exactly 1 per put; a get
\* with sequence > 0 returns the width and height of one single put and
\* len(bytes) == width * height * 4.
C3_BufferMonotone ==
  /\ [](buf.seq = Len(putLog))
  /\ [][buf'.seq = buf.seq \/ (buf'.seq = buf.seq + 1 /\ dec.pc = "p_copy" /\ dec'.pc = "idle")]_vars
  /\ [][paint'.seq >= paint.seq /\ paint'.seen >= paint.seen]_vars
  /\ [](paint.seen <= paint.seq)
  /\ [](paint.seq > 0 =>
         /\ paint.seq <= Len(putLog)
         /\ <<paint.w, paint.h>> = putLog[paint.seq]
         /\ paint.len = paint.w * paint.h * 4)

\* a get after a put of another size than the put the get before saw
C3_Witness ==
  /\ paint.pc = "pe_guard"
  /\ paint.seen = 1
  /\ paint.seq = 2
  /\ putLog[1] # putLog[2]

\* C4: a reader never sees a partially written frame: every pixel the paint
\* event has copied comes from one single put, of the width and height its
\* get returned.
PutDims(p) == IF p <= Len(putLog) THEN putLog[p] ELSE <<dec.w, dec.h>>
C4_NoTornRead ==
  paint.pc = "pe_draw" =>
    \E p \in 1..(buf.seq + 1) :
      /\ \A k \in 1..Len(paint.img) : paint.img[k] = p
      /\ PutDims(p) = <<paint.w, paint.h>>
      /\ Len(paint.img) = paint.w * paint.h

RECURSIVE Pow2(_)
Pow2(n) == IF n = 0 THEN 1 ELSE 2 * Pow2(n - 1)

Min(a, b) == IF a < b THEN a ELSE b

\* C5: on a freshly opened session with no manual restart, the delay that
\* setReconnectSoon schedules at the N-th failure (nextTry minus now) is
\* min(2^(N-1) s, 30 s).
C5_BackoffGrowth ==
  [][(nFails' = nFails + 1 /\ nRestarts = 0)
       => nextTry' - now' = Min(Pow2(nFails' - 1) * 1000, 30 * 1000)]_vars

\* the sixth failure in a row has scheduled the capped delay
C5_Witness ==
  /\ nFails = 6
  /\ nRestarts = 0
  /\ loops[1].pc = "dl_pause"
  /\ nextTry - now = 30000

\* C6 (as stated): every explicit restart leaves backoff at 250 ms when the
\* new decode loop starts, whatever the value accumulated before.
C6_RestartLeavesShort ==
  \A t \in Threads : thr[t].pc = "rd_mkdone" => backoff = ShortBackoff

RestartWithBegins == thr[UI].pc = "idle" /\ thr'[UI].op = "RestartWith"
RestartAdjusts(t) == thr[t].pc = "rd_backoff" /\ thr'[t].pc = "rd_mkstop"

\* C6 (amended): RestartWith sets backoff to 250 ms before it restarts;
\* restartDecoder, after its wait and sleep, sets backoff to 250 ms when the
\* accumulated value is 0 or above 1 s and leaves a value in (0, 1 s]
\* as it is, so that it leaves at most 1 s.
C6_RestartShortens ==
  [][/\ RestartWithBegins => backoff' = ShortBackoff
     /\ \A t \in Threads :
          RestartAdjusts(t) =>
            /\ (backoff = 0 \/ backoff > ShortCadence) => backoff' = ShortBackoff
            /\ (0 < backoff /\ backoff <= ShortCadence) => backoff' = backoff
            /\ backoff' <= ShortCadence]_vars

\* a StartCamera or wake restart has reset a doubled backoff
C6_Witness ==
  \E t \in Threads :
    /\ thr[t].pc = "rd_mkstop"
    /\ thr[t].op \in {"Start", "Wake"}
    /\ nFails >= 1
    /\ backoff = ShortBackoff

\* C7: as long as no stop is raised every ended attempt, failed or not, is
\* followed by a new attempt; the loop returns only on a closed stop channel.
C7_Retried ==
  /\ [](\A l \in LoopIds : loops[l].pc = "dl_exit" => IsClosed(loops[l].stop))
  /\ \A l \in LoopIds :
       (loops[l].pc = "dl_pause") ~> (loops[l].pc \in {"attempt", "dl_exit"} \/ ~Running)

\* a second attempt of the first loop after a failed one, no stop raised
C7_Witness ==
  /\ nFails >= 1
  /\ loops[1].pc = "attempt"
  /\ closedCh = {}

\* C8: Close returns after a bounded wait even when the decode loop is
\* wedged: Close is never left waiting for a done channel that nothing can
\* close any more.
CloseBlockedForever ==
  /\ thr[UI].pc = "cl_wait"
  /\ ~IsClosed(thr[UI].ch)
  /\ \E l \in LoopIds : loops[l].pc = "wedged" /\ loops[l].done = thr[UI].ch
  /\ \A l \in LoopIds : loops[l].pc \in {"unborn", "wedged", "exited"}
  /\ \A t \in WakeThreads : thr[t].pc \in {"unborn", "finished"}
C8_CloseBounded == ~CloseBlockedForever

\* C9: restartDecoder has the stop channel closed before it waits for done,
\* waits a bounded time, and goes on when the previous loop never reports
\* done: every restart request terminates.
C9_RestartTerminates ==
  /\ [][\A t \in Threads :
          (thr[t].pc \in {"rd_check", "rd_close"} /\ thr'[t].pc = "rd_arg")
            => IsClosed(w_stop)']_vars
  /\ \A t \in Threads : InRestart(t) ~> (~InRestart(t) \/ ~Running)

\* a restart returned and started its loop while the previous one is wedged
C9_Witness ==
  /\ nRestarts = 1
  /\ nLoops = 2
  /\ \A t \in Threads : ~InRestart(t)
  /\ loops[1].pc = "wedged"
  /\ ~IsClosed(loops[1].done)

\* C10: once Close has returned, no decode loop of the session is running
\* and none is started later.
CloseReturned == closing /\ thr[UI].pc = "idle"
C10_CloseTerminal == CloseReturned => \A l \in LoopIds : ~LiveLoop(l)

\* C11: the stall watchdog fails the attempt whenever no frame has been
\* published for more than 10 s: after processing any packet, video or audio,
\* and on any failed read, more than 10 s since the last published frame (or
\* since the loop started) makes openAndDecode return the stall error.
C11_WatchdogTrips ==
  [][(/\ pl.pc = "got"
      /\ pl.kind \in {"fail", "audio", "video"}
      /\ pl'.pc # "got"
      /\ now' - pl'.lastProgress > 10 * 1000)
       => pl'.pc = "stalled"]_vars

\* C12: recorder start and stop are idempotent, for every sequence of start
\* and stop calls within an attempt: startRecorder while a recorder is open
\* changes nothing (no second container, no second header), and closeRecorder
\* while no recorder is open changes nothing (no trailer, no state change).
C12_RecorderIdempotent ==
  \A i \in 1..Len(recLog) :
    /\ (recLog[i].op = "start" /\ recLog[i].before.recCtx # 0)
         => recLog[i].after = recLog[i].before
    /\ (recLog[i].op = "close" /\ recLog[i].before.recCtx = 0)
         => recLog[i].after = recLog[i].before

\* a close with nothing open, then a start that opens, then a second start
C12_Witness ==
  /\ Len(recLog) = 3
  /\ recLog[1].op = "close" /\ recLog[1].before.recCtx = 0
  /\ recLog[2].op = "start" /\ recLog[2].after.recCtx # 0
  /\ recLog[3].op = "start" /\ recLog[3].before.recCtx # 0
  /\ rec.made = 1 /\ rec.headers = 1 /\ rec.trailers = 0

\* no recorder field holds anything
RecorderCleared(r) ==
  /\ r.recCtx = 0
  /\ ~r.recIO
  /\ ~r.recStreamIx
  /\ ~r.aEncCtx
  /\ ~r.aSwr
  /\ ~r.aEncFrame
  /\ r.aEncStream = "nil"

\* C13: a failure at any step of recorder start (container, I/O open, output
\* stream, header write) aborts the attempt to record: when startRecorder
\* returns after it, the container, I/O handle, stream map, encoder, resampler,
\* encoder frame and encoder stream are all cleared.
C13_FailedStartLeavesNothing ==
  \A i \in 1..Len(recLog) :
    (recLog[i].op = "start" /\ recLog[i].before.recCtx = 0
       /\ recLog[i].fail # "none")
      => RecorderCleared(recLog[i].after)

\* the samples of the health table: frames shown in an interval of 1 s
SampleScore(frames) ==
  CASE frames = 30 -> 5 [] frames = 20 -> 4 [] frames = 10 -> 3
    [] frames = 1 -> 2 [] OTHER -> 0

\* C14: the sampler maps the interval's FPS to the health score as >= 24 -> 5,
\* >= 15 -> 4, >= 5 -> 3, > 0 -> 2, 0 -> 0; a drop percentage above 10 takes
\* exactly 1 off a non-zero score; so 30, 20, 10, 1, 0 frames in a second give
\* 5, 4, 3, 2, 0 without the penalty and 4, 3, 2, 1, 0 with it.
C14_HealthMapping ==
  met.ticks > 0 =>
    LET f == met.shown * 1000
        base == IF f >= 24 * met.dt THEN 5
                ELSE IF f >= 15 * met.dt THEN 4
                ELSE IF f >= 5 * met.dt THEN 3
                ELSE IF f > 0 THEN 2 ELSE 0
        penalty == 100 * met.missing > 10 * (met.shown + met.missing)
    IN /\ met.health = (IF penalty /\ base > 0 THEN base - 1 ELSE base)
       /\ (met.dt = 1000 /\ met.shown \in {30, 20, 10, 1, 0}) =>
            /\ base = SampleScore(met.shown)
            /\ met.health = IF penalty /\ met.shown > 0
                              THEN SampleScore(met.shown) - 1
                              ELSE SampleScore(met.shown)

\* 30 frames and 5 missing in one second: 14.3 % of drops, score 5 - 1
C14_Witness ==
  /\ met.ticks > 0 /\ met.dt = 1000
  /\ met.shown = 30 /\ met.missing = 5
  /\ met.health = 4

\* C17: after every tick of the sampler, for any counter values (lower than at
\* the previous tick included): CPU percent in [0, 400], drop percentage in
\* [0, 100] and equal to 100 * missing / (shown + missing) of the interval (0
\* when shown + missing is 0), FPS >= 0, bitrate >= 0, health in 0..5.
C17_SnapshotRanges ==
  /\ RatGE(met.cpuPct, 0) /\ RatLE(met.cpuPct, 400)
  /\ RatGE(met.dropsPct, 0) /\ RatLE(met.dropsPct, 100)
  /\ met.shown >= 0 /\ met.missing >= 0
  /\ IF met.shown + met.missing = 0
     THEN met.dropsPct.num = 0
     ELSE met.dropsPct.num * (met.shown + met.missing)
            = 100 * met.missing * met.dropsPct.den
  /\ RatGE(met.fps, 0)
  /\ RatGE(met.bitrateKbps, 0)
  /\ met.health \in 0..5

\* a tick that read a frame counter lower than the previous tick's and busy
\* time of 5 s in 1 s
C17_Witness ==
  /\ met.ticks > 0
  /\ met.lastMFrames = 0 /\ met.shown = 0 /\ met.missing > 0
  /\ met.cpuPct = Rat(400, 1)
  /\ met.dropsPct = Rat(100 * met.missing, met.missing)

\* this packet has a predecessor in the attempt
HasPrevious == est.n >= 2
\* this packet's timestamp is exactly 3 nominal frame durations after the
\* previous packet's
ThreeDurations ==
  (est.ts - est.prev) * est.tbNum * est.fpsNom = 3 * est.tbDen * est.fpsDen
\* this packet's timestamp is more than 3 s after the previous packet's
OverThreeSeconds == (est.ts - est.prev) * est.tbNum > 3 * est.tbDen

HasForm(tok, prefix, key, value) ==
  /\ key # <<>> /\ value # <<>>
  /\ \A i \in 1..Len(key) : key[i] # "="
  /\ tok = <<"-", prefix>> \o key \o <<"=">> \o value

\* the value with one pair of matching surrounding quotes taken off
Unquoted(value) ==
  IF Len(value) >= 2 /\ value[1] = value[Len(value)] /\ value[1] \in {"\"", "'"}
  THEN SubSeq(value, 2, Len(value) - 1)
  ELSE value

\* the ways to cut a token after its prefix into a key and a value
Cuts(tok) ==
  {c \in [key : {SubSeq(tok, 3, i) : i \in 3..Len(tok)},
          value : {SubSeq(tok, i, Len(tok)) : i \in 4..Len(tok)}] : TRUE}

\* what the tokens typed put into the map of a prefix: the pair of the last
\* token of the form with that key, and nothing else
MapOf(prefix, map) ==
  LET toks == prs.toks
      Pairs(i) == {c \in Cuts(toks[i]) : HasForm(toks[i], prefix, c.key, c.value)}
  IN /\ \A i \in 1..Len(toks) : \A c \in Pairs(i) :
          /\ c.key \in DOMAIN map
          /\ (\A j \in (i + 1)..Len(toks) : \A d \in Pairs(j) : d.key # c.key)
               => map[c.key] = Unquoted(c.value)
     /\ \A k \in DOMAIN map :
          \E i \in 1..Len(toks) : \E c \in Pairs(i) : c.key = k

\* C16: parseFFmpegParams splits its input on white space; every token
\* -f<key>=<value> or -c<key>=<value> puts key -> value, one pair of matching
\* surrounding quotes stripped, into the format map or the decoder map; a
\* token without "=" contributes to neither; the example yields format
\* {stimeout: 5000000, user_agent: My/1.0} and decoder {threads: 2}.
C16_ParamsParsed ==
  prs.parsed =>
    /\ MapOf("f", prs.fopts)
    /\ MapOf("c", prs.copts)
    /\ prs.s = ExampleParams =>
         /\ prs.fopts =
              (<<"s", "t", "i", "m", "e", "o", "u", "t">>
                 :> <<"5", "0", "0", "0", "0", "0", "0">>)
              @@ (<<"u", "s", "e", "r", "_", "a", "g", "e", "n", "t">>
                    :> <<"M", "y", "/", "1", ".", "0">>)
         /\ prs.copts = (<<"t", "h", "r", "e", "a", "d", "s">> :> <<"2">>)

\* the example parsed
C16_Witness ==
  /\ prs.parsed
  /\ prs.s = ExampleParams
  /\ Len(prs.toks) = 4
  /\ DOMAIN prs.copts = {<<"t", "h", "r", "e", "a", "d", "s">>}

\* t is s without its leading and trailing white space
IsTrimOf(t, s) ==
  IF \A i \in 1..Len(s) : IsSpace(s[i]) THEN t = <<>>
  ELSE \E i \in 1..Len(s), j \in 1..Len(s) :
         /\ i <= j /\ ~IsSpace(s[i]) /\ ~IsSpace(s[j])
         /\ \A k \in 1..Len(s) : (k < i \/ k > j) => IsSpace(s[k])
         /\ t = SubSeq(s, i, j)

\* c is s with the characters / \ : * ? " < > | replaced by an underscore,
\* leading and trailing white space apart
IsCleaned(c, s) ==
  \E t \in {SubSeq(s, i, j) : i \in 1..Len(s), j \in 1..Len(s)} :
    /\ IsTrimOf(t, s)
    /\ Len(c) = Len(t)
    /\ \A k \in 1..Len(t) :
         c[k] = IF t[k] \in {"/", "\\", ":", "*", "?", "\"", "<", ">", "|"}
                THEN "_" ELSE t[k]

Placeholder == <<"c", "a", "m", "e", "r", "a">>

\* C18 as stated: the directory component is the camera name with each of
\* / \ : * ? " < > | replaced by an underscore and every other character
\* kept, and it is the literal placeholder whenever the name is empty after
\* trimming, whatever the camera's URL.
C18_ComponentAsStated ==
  san.built =>
    IF IsTrimOf(<<>>, san.name)
    THEN san.camName = Placeholder
    ELSE IsCleaned(san.camName, san.name)

\* C18 (amended): the component is built from the camera name, or from the
\* camera's URL when the name is the empty string: that string, trimmed, with
\* each of / \ : * ? " < > | replaced by an underscore and every other
\* character kept; it is the placeholder when that string is empty after
\* trimming.
C18_PathComponent ==
  san.built =>
    LET from == IF san.name = <<>> THEN san.url ELSE san.name IN
    IF IsTrimOf(<<>>, from)
    THEN san.camName = Placeholder
    ELSE IsCleaned(san.camName, from)

\* a name of a pipe and a blank gives "_"
C18_Witness ==
  /\ san.built
  /\ san.name = <<"|", " ">>
  /\ san.camName = <<"_">>

\* slot i of the registry holds an open window
OpenAt(i) == i <= Len(wins) /\ wins[i] # 0 /\ cw[wins[i]].open

\* C19: after a camera is removed in the settings dialog the registry is
\* realigned: every open window in slot i has the camera ID and the stored
\* index of configuration entry i, and no open window is dropped from the
\* registry; the close callback of the removed window never disables or clears
\* the slot of another camera.
C19_RegistryAligned ==
  (posted = <<>> /\ ~trayPanic) =>
    /\ \A i \in 1..Len(wins) :
         OpenAt(i) => /\ i <= Len(cams)
                      /\ cw[wins[i]].cam = cams[i].id
                      /\ cw[wins[i]].idx = i
    /\ \A k \in 1..Len(cw) :
         cw[k].open => \E i \in 1..Len(wins) : wins[i] = k

C21_EditRestartsOne ==
  edit.row # 0 =>
    /\ \A x \in edit.restarted : x.name = edit.name
    /\ \A k \in edit.own : \E x \in edit.restarted : x.win = k

\* C22: after an attempt returns an error at time t with current backoff b,
\* the next attempt of that session does not start before t + b (the time
\* setReconnectSoon stored in nextTry): between successive failed attempts
\* the controller waits the increasing backoff, no restart requested.
C22_WaitsBackoff ==
  (loops[1].pc = "attempt" /\ nRestarts = 0) => now >= nextTry

\* C23: a decode loop obeys the stop signal of the generation it was started
\* for: once that stop channel is closed the loop starts no further attempt,
\* even when restartDecoder has meanwhile, after its 2 s timeout, installed
\* the stop and done channels of the next generation.
C23_ObeysOwnStop ==
  [][\A l \in LoopIds :
       (loops[l].pc # "attempt" /\ loops'[l].pc = "attempt")
         => ~IsClosed(loops[l].gen)]_vars

C25_OneConfigPerLoop ==
  [][\A l \in LoopIds :
       (cfgSeen[l] # 0 /\ cfgSeen'[l] # cfgSeen[l]) => FALSE]_vars

\* C26 (as stated): every hard decode error adds exactly one to the drop
\* counter and one to the decode-error counter.
C26_HardErrorCounted ==
  (at.pc = "watch" /\ at.outcome = "harderr")
    => (at.dErrs = 1 /\ at.dDrops = 1)

\* C26: in the packet loop a failed read, a SendPacket or ReceiveFrame error
\* and a conversion error end the attempt only when the last progress is
\* more than 10 s old; otherwise the loop goes back to its top. A hard
\* decode error adds one to framesDropped and one to decodeErrs when
\* globalConfig.ShowDrops is on and nothing when it is off; no other outcome
\* adds to them. A packet whose frames all failed conversion publishes
\* nothing and leaves lastProgress as it was.
C26_ErrorsAbsorbed ==
  [][/\ (at.pc \in {"read", "watch"} /\ at'.ret = "error") => Stalled(at.lastProgress)
     /\ (at.pc = "watch" /\ at'.pc # "watch" /\ ~Stalled(at.lastProgress))
          => at'.pc = "top"
     /\ at'.pc = "watch" =>
          /\ at'.dErrs = (IF at'.outcome = "harderr" /\ at'.showDrops THEN 1 ELSE 0)
          /\ at'.dDrops = at'.dErrs
     /\ (at.pc = "decode" /\ at'.pc = "watch" /\ at'.put = 0)
          => at'.lastProgress = at.lastProgress]_vars

\* a second packet whose frame failed conversion and whose decoding then
\* failed hard, counted, with the attempt going on
C26_Witness ==
  /\ at.pc = "watch" /\ at.reads = 2 /\ ~Stalled(at.lastProgress)
  /\ at.outcome = "harderr" /\ at.showDrops /\ at.dErrs = 1 /\ at.dDrops = 1
  /\ at.conv = 1 /\ at.put = 0

\* C27: the recording state is reconciled once for every packet read, before
\* the packet is muxed or decoded: after the reconcile step no recorder is
\* open when it read "not recording", and one is open when it read
\* "recording" and startRecorder did not fail. A ToggleRecording is
\* therefore acted on at the next packet read.
C27_ReconciledPerPacket ==
  /\ at.pc \in {"mux", "decode", "watch"} =>
       /\ ~at.seenRec => ~RecorderOpen(rec)
       /\ (at.seenRec /\ at.startFail = "none") => RecorderOpen(rec)
  /\ at.pc = "reconcile" => at.si \in InputStreams

\* recording was switched on before the first packet and off before the
\* second: the second packet's reconcile step has closed the recorder
C27_Witness ==
  /\ at.pc = "mux" /\ at.reads = 2 /\ at.n = 1
  /\ ~at.seenRec /\ ~recording
  /\ rec.headers = 1 /\ rec.trailers = 1 /\ ~RecorderOpen(rec)

\* C28: every recording whose header was written gets its trailer written
\* exactly once, when the reconcile step finds recording switched off or when
\* the attempt ends, whichever comes first; after that close no recorder
\* field holds anything, and no recorder stays open past the attempt.
C28_TrailerOnceThenCleared ==
  [][/\ (RecorderOpen(rec) /\ ~RecorderOpen(rec'))
          => (rec'.trailers = rec.trailers + 1 /\ RecorderCleared(rec'))
     /\ rec'.headers - rec'.trailers = (IF RecorderOpen(rec') THEN 1 ELSE 0)
     /\ at'.pc \in {"free", "dl_pause", "dl_exit", "exited"} => ~RecorderOpen(rec')]_vars

\* C29: in every state an open recorder was opened by the attempt that is
\* running and that attempt's format context is still open; the headers
\* written exceed the trailers written by one when a recorder is open and by
\* nothing otherwise (at most one recorder at a time); and when the attempt's
\* format context is freed the recorder has already been closed.
C29_RecorderWithinAttempt ==
  [][/\ RecorderOpen(rec') => (at'.fc /\ at'.recBy = at'.n)
     /\ rec'.headers - rec'.trailers = (IF RecorderOpen(rec') THEN 1 ELSE 0)
     /\ (at.fc /\ ~at'.fc) => ~RecorderOpen(rec)]_vars

\* an attempt that was recording when the watchdog ended it: the deferred
\* close has written the trailer and the format context is about to be freed
C29_Witness ==
  /\ at.pc = "free" /\ at.fc /\ at.ret = "error"
  /\ at.seenRec /\ at.startFail = "none" /\ recording
  /\ rec.headers = 1 /\ rec.trailers = 1 /\ ~RecorderOpen(rec)

C31_IsRecordingIsOpen ==
  [][(at.pc = "reconcile" /\ at'.pc = "mux")
       => (recording' <=> RecorderOpen(rec'))]_vars

\* C32: backoff doubling counts consecutive failures only: once an attempt
\* has returned without error the backoff is back at its initial second, so
\* that the next failing attempt is scheduled 1 s ahead whatever the failures
\* before the clean attempt had accumulated.
C32_CleanAttemptResets ==
  (at.pc = "dl_pause" /\ at.ret = "nil") => backoff = InitialBackoff

\* C33: at end of stream the attempt flushes the video decoder: every frame
\* the decoder still returns is converted and, when the conversion succeeds,
\* put into the frame buffer; the attempt returns nil; backoff and nextTry
\* stay as they were; and the next attempt starts only from the top of
\* decodeLoop, which is reached only through the pause between attempts.
C33_EndOfStreamFlushes ==
  [][/\ at'.outcome = "flush" =>
          /\ at'.ret = "nil"
          /\ at'.put = Cardinality({i \in 1..Len(at'.flushed) : at'.flushed[i] = "frame"})
          /\ at'.put + at'.conv = Len(at'.flushed)
          /\ backoff' = backoff /\ nextTry' = nextTry
     /\ at'.n # at.n => (at.pc = "dl_top" /\ at'.n = at.n + 1)
     /\ (at'.pc = "dl_top" /\ at.pc # "dl_top") => at.pc = "dl_pause"]_vars

\* the stream has ended, the flush has put the last frame, and the loop is
\* in its pause with the backoff untouched
C33_Witness ==
  /\ at.pc = "dl_pause" /\ at.outcome = "flush" /\ at.ret = "nil" /\ ~at.stop
  /\ at.flushed = <<"frame">> /\ at.put = 1
  /\ backoff = InitialBackoff /\ nextTry = 0

\* C34: for a video packet at most 3 s after the previous video packet, both
\* with positive timestamps, the amount added to framesDropped is
\* round(elapsed / frame duration) - 1 clamped to 0..120: a negative value
\* adds 0 and a value above 120 adds 120.
C34_MissingClamped ==
  (HasPrevious /\ est.prev > 0 /\ est.ts > est.prev /\ ~OverThreeSeconds) =>
    LET exp == (2 * (est.ts - est.prev) * est.tbNum * est.fpsNom
                  + est.tbDen * est.fpsDen) \div (2 * est.tbDen * est.fpsDen)
        miss == exp - 1
    IN est.added = (IF miss < 0 THEN 0 ELSE IF miss > 120 THEN 120 ELSE miss)

\* C35: whenever the bitrate overlay is enabled, whatever the other overlay
\* flags, the bitrate a tick reports equals the payload of the video packets
\* read during the interval * 8 / 1000, divided by the interval in seconds;
\* audio packets add nothing.
C35_BitrateOfInterval ==
  (met.ticks > 0 /\ br.showBitrate) =>
    met.bitrateKbps.num * met.dt = br.interval * 8 * met.bitrateKbps.den

C37_ConverterCache ==
  /\ sc.ssc # NoContext =>
       /\ sc.ssc = [w |-> sc.srcW, h |-> sc.srcH, pix |-> sc.srcPix]
       /\ sc.dst = [w |-> sc.srcW, h |-> sc.srcH, pix |-> "bgra"]
  /\ sc.calls > 0 =>
       /\ sc.rebuilt <=> (sc.before = NoContext \/ sc.before # sc.frame)
       /\ sc.err \in {"create", "alloc"} => (sc.rebuilt /\ sc.ssc = NoContext)
       /\ (sc.rebuilt /\ sc.err \notin {"create", "alloc"}) => sc.ssc = sc.frame
       /\ sc.err = "none" => (sc.outW = sc.frame.w /\ sc.outH = sc.frame.h)

\* a 4x6 nv12 frame arrived at a converter built for 2x2 yuv420p: the
\* context was rebuilt and the conversion returned 4x6
C37_Witness ==
  /\ sc.calls > 0 /\ sc.rebuilt /\ sc.err = "none"
  /\ sc.before = [w |-> 2, h |-> 2, pix |-> "yuv420p"]
  /\ sc.frame = [w |-> 4, h |-> 6, pix |-> "nv12"]
  /\ sc.outW = 4 /\ sc.outH = 6

InSetReconnectSoon(l) ==
  rs.pc[l] \in {"srs_zero", "srs_cap", "srs_next", "srs_test", "srs_double",
                "srs_cap2"}

\* C38: in every reachable state of a session, under any sequence of
\* failures and restart requests, the backoff is greater than 0 and at most
\* 30 seconds (looked at while no decode loop is in the middle of
\* setReconnectSoon), and setReconnectSoon never schedules nextTry more than
\* 30 seconds ahead.
C38_BackoffInRange ==
  /\ (\A l \in DecodeLoops : ~InSetReconnectSoon(l)) =>
       (0 < backoff /\ backoff <= MaxBackoff)
  /\ nextTry <= now + MaxBackoff

\* C40: for every camera name and URL, the recording output path is a file
\* located exactly two levels below the home directory's recordings root
\* (<home>/AnotherRTSP-Recordings/<one directory>/<timestamp>.mp4): the file's
\* directory is the root followed by the camera-derived component, which
\* never contains a path separator and never resolves to the root itself or
\* to a directory outside it.
C40_TwoLevelsBelowRoot ==
  san.built =>
    /\ \A i \in 1..Len(san.camName) : san.camName[i] \notin {"/", "\\"}
    /\ san.dir = <<HomeDir, RecordingsRoot, san.camName>>

\* C39: two different recordings of the same camera never use the same
\* output file: each recorder start (after a toggle off/on or after a
\* reconnect while recording stays requested) produces a path distinct from
\* every earlier recording's path, so no earlier recording is overwritten.
C39_FilesDistinct ==
  \A i \in 1..Len(rf.files), j \in 1..Len(rf.files) :
    i # j => rf.files[i] # rf.files[j]

====
